---- MODULE Spec2Model ----
(***************************************************************************)
(* FlintDB: the Python binding flintdb_cffi.py and the tutorial that       *)
(* drives it.  The binding's wrappers (Table, CursorI64, GenericFile,     *)
(* FileSort, Aggregate) are translated from the Python source.  The       *)
(* engine behind the vtable pointers (libflintdb) is not part of the      *)
(* Python sources; its operations are written from the specification of   *)
(* the engine and are named after the C declarations of the cdef block.   *)
(***************************************************************************)
EXTENDS Integers, Sequences, FiniteSets, TLC

VARIABLES
    tblData,        \* Table: data store, row id -> stored row
    tblIndex,       \* Table: index name -> set of [key, rowid] entries
    tblNextRowid,   \* Table: the next row id the engine hands out
    tblAssigned,    \* history: every row id an inserting apply has returned
    tblLast,        \* outcome of the last Table call made through the binding
    tblScript,      \* progress of the tutorial's CRUD scenario on this table
    gfBytes,        \* GenericFile: the characters of the flat file
    gfCount,        \* GenericFile: the engine's running row count
    gfWritten,      \* history: the rows handed to GenericFile.write, in order
    gfLast,         \* outcome of the last GenericFile call
    fsRows,         \* FileSort: the spooled rows in their current order
    fsSorted,       \* FileSort: sort has run since the last add
    fsAdded,        \* history: the rows handed to FileSort.add, in order
    fsLast,         \* outcome of the last FileSort call
    aggGroups,      \* Aggregate: per group, its key and one accumulator per function
    aggFolded,      \* history: the rows handed to Aggregate.row, in order
    aggLast,        \* outcome of the last Aggregate call
    rowColumns,     \* Row: the columns of the schema the row was built for
    rowSlots,       \* Row: one variant per column
    rowLast,        \* outcome of the last Row call
    metaColumns,    \* Meta: the column definitions, in declaration order
    metaIndexes,    \* Meta: the index definitions, in declaration order
    metaLast,       \* outcome of the last Meta call
    curKind,        \* which cursor class wraps the scan
    curItems,       \* what the engine's scan yields, in order
    curPos,         \* the engine's scan position
    curReturned,    \* every value next has yielded so far
    curLast,        \* the last call on the cursor and its result
    hPtr,           \* each wrapper's pointer attribute: live or NULL
    hReleases,      \* how often the engine released each handle
    hCloses,        \* how often close() was called on each wrapper
    hLast,          \* the last close() call
    dropFiles,      \* the storage files present at each path
    dropCalls,      \* how many drop calls were made
    dropLast,       \* the last call and what its caller saw
    ownRows,        \* the Row wrapper each call returned: pointer and ownership flag
    ownFrees,       \* how often the receiver freed each engine row
    ownCloses,      \* how often close() was called on each wrapper
    ownLast,        \* the last call
    spHeap,         \* the engine's rows: cell 0 the caller's, cell k the k-th spooled
    spSpool,        \* the spool: its cells in order
    spSorted,       \* whether sort() ran since the last add
    spAdds,         \* the values each added row had when add was called
    spLast,         \* the last call and its result
    cgGroups,       \* per group, the accumulator of every conditioned function
    cgFolded,       \* the rows handed to row() on that aggregate
    cgLast,         \* the last call on that aggregate
    abPtr,          \* the pointer attribute of the GroupBy and the AggFunc wrapper
    abOwned,        \* their _owned flags
    abWrapperFrees, \* how often a wrapper's close freed each handle
    abAggFrees,     \* how often an aggregate's free released each handle
    abAggs,         \* the aggregates built: open or closed, and the handles each owns
    abLast,         \* the last call
    sqRes,          \* the SqlResult wrapper's pointer: live or NULL
    sqCursors,      \* the pointer of every CursorRow iter_rows returned
    sqCloses,       \* how often the engine's row cursor was closed
    sqReleased,     \* whether the engine's row cursor was released
    sqAdvancedReleased,\* whether next ran on the released cursor
    sqLast          \* the last call

tblVars == <<tblData, tblIndex, tblNextRowid, tblAssigned, tblLast, tblScript>>

gfVars == <<gfBytes, gfCount, gfWritten, gfLast>>

fsVars == <<fsRows, fsSorted, fsAdded, fsLast>>

aggVars == <<aggGroups, aggFolded, aggLast>>

rowVars == <<rowColumns, rowSlots, rowLast>>

metaVars == <<metaColumns, metaIndexes, metaLast>>

curVars == <<curKind, curItems, curPos, curReturned, curLast>>

hVars == <<hPtr, hReleases, hCloses, hLast>>

dropVars == <<dropFiles, dropCalls, dropLast>>

ownVars == <<ownRows, ownFrees, ownCloses, ownLast>>

spVars == <<spHeap, spSpool, spSorted, spAdds, spLast>>

cgVars == <<cgGroups, cgFolded, cgLast>>

abVars == <<abPtr, abOwned, abWrapperFrees, abAggFrees, abAggs, abLast>>

sqVars == <<sqRes, sqCursors, sqCloses, sqReleased, sqAdvancedReleased, sqLast>>

vars == <<tblVars, gfVars, fsVars, aggVars, rowVars, metaVars, curVars, hVars, dropVars, ownVars, spVars, cgVars, abVars, sqVars>>

\* What the calls on one component leave alone: every other component.
OtherThanTbl == <<gfVars, fsVars, aggVars, rowVars, metaVars, curVars, hVars, dropVars, ownVars, spVars, cgVars, abVars, sqVars>>
OtherThanGf == <<tblVars, fsVars, aggVars, rowVars, metaVars, curVars, hVars, dropVars, ownVars, spVars, cgVars, abVars, sqVars>>
OtherThanFs == <<tblVars, gfVars, aggVars, rowVars, metaVars, curVars, hVars, dropVars, ownVars, spVars, cgVars, abVars, sqVars>>
OtherThanAgg == <<tblVars, gfVars, fsVars, rowVars, metaVars, curVars, hVars, dropVars, ownVars, spVars, cgVars, abVars, sqVars>>
OtherThanRow == <<tblVars, gfVars, fsVars, aggVars, metaVars, curVars, hVars, dropVars, ownVars, spVars, cgVars, abVars, sqVars>>
OtherThanMeta == <<tblVars, gfVars, fsVars, aggVars, rowVars, curVars, hVars, dropVars, ownVars, spVars, cgVars, abVars, sqVars>>
OtherThanCur == <<tblVars, gfVars, fsVars, aggVars, rowVars, metaVars, hVars, dropVars, ownVars, spVars, cgVars, abVars, sqVars>>
OtherThanHandle == <<tblVars, gfVars, fsVars, aggVars, rowVars, metaVars, curVars, dropVars, ownVars, spVars, cgVars, abVars, sqVars>>
OtherThanDrop == <<tblVars, gfVars, fsVars, aggVars, rowVars, metaVars, curVars, hVars, ownVars, spVars, cgVars, abVars, sqVars>>
OtherThanOwn == <<tblVars, gfVars, fsVars, aggVars, rowVars, metaVars, curVars, hVars, dropVars, spVars, cgVars, abVars, sqVars>>
OtherThanSpool == <<tblVars, gfVars, fsVars, aggVars, rowVars, metaVars, curVars, hVars, dropVars, ownVars, cgVars, abVars, sqVars>>
OtherThanCond == <<tblVars, gfVars, fsVars, aggVars, rowVars, metaVars, curVars, hVars, dropVars, ownVars, spVars, abVars, sqVars>>
OtherThanBuild == <<tblVars, gfVars, fsVars, aggVars, rowVars, metaVars, curVars, hVars, dropVars, ownVars, spVars, cgVars, sqVars>>
OtherThanSql == <<tblVars, gfVars, fsVars, aggVars, rowVars, metaVars, curVars, hVars, dropVars, ownVars, spVars, cgVars, abVars>>











(***************************************************************************)
(* Bounds of the model.                                                    *)
(***************************************************************************)
MaxId == 2          \* customer ids 1..MaxId
MaxRowids == 3      \* row ids handed out per table before apply is cut off
MaxNameLen == 2     \* characters in a product name
MaxWrites == 2      \* rows written to one flat file
MaxSortRows == 4    \* rows added to one FileSort
MaxAggRows == 4     \* rows folded into one Aggregate
MaxColumns == 2     \* columns of one Meta
MaxIndexes == 2     \* indexes of one Meta

(***************************************************************************)
(* tutorial_table_create: the customer schema and its two indexes.         *)
(***************************************************************************)
AgeBase == 30

Ids == 1..MaxId

\* The ages the tutorial's where clauses name: age = 30 and age >= 31.
Ages == {AgeBase, AgeBase + 1}

Names == {"Customer"}

Rows == [id : Ids, name : Names, age : Ages]

IndexNames == {"primary", "ix_age"}

IndexColumn(ix) == IF ix = "primary" THEN "id" ELSE "age"

\* The row the tutorial builds in iteration i of its insert loop.
TutorialRow(i) == [id |-> i + 1, name |-> "Customer", age |-> AgeBase + i]

TutorialRows == {TutorialRow(i) : i \in 0..2}

(***************************************************************************)
(* Predicates of find: a comparison of one column with a constant, or the  *)
(* empty predicate that matches every row.                                 *)
(***************************************************************************)
EmptyPred == [col |-> "", op |-> "", val |-> 0]

Ops == {"=", ">=", "<=", "<", ">"}

Preds == {EmptyPred} \cup [col : {"id"}, op : Ops, val : Ids]
                     \cup [col : {"age"}, op : Ops, val : Ages]

\* The where clauses the tutorial passes to Table.find.
TutorialPreds ==
    { [col |-> "age", op |-> ">=", val |-> AgeBase + 1],
      [col |-> "age", op |-> "=", val |-> AgeBase],
      [col |-> "id", op |-> "=", val |-> 3],
      EmptyPred }

Compare(op, a, b) ==
    CASE op = "="  -> a = b
      [] op = ">=" -> a >= b
      [] op = "<=" -> a <= b
      [] op = "<"  -> a < b
      [] op = ">"  -> a > b

\* Row-by-row evaluation of a predicate.
Sat(row, pred) == pred = EmptyPred \/ Compare(pred.op, row[pred.col], pred.val)

(***************************************************************************)
(* Sequences of integers in ascending order, and index entries in index    *)
(* order (key, then row id).                                               *)
(***************************************************************************)
SetMin(S) == CHOOSE x \in S : \A y \in S : x <= y

RECURSIVE Ascending(_)
Ascending(S) ==
    IF S = {} THEN <<>> ELSE <<SetMin(S)>> \o Ascending(S \ {SetMin(S)})

EntryLess(a, b) == a.key < b.key \/ (a.key = b.key /\ a.rowid < b.rowid)

RECURSIVE IndexOrder(_)
IndexOrder(E) ==
    IF E = {} THEN <<>>
    ELSE LET first == CHOOSE a \in E : \A b \in E \ {a} : EntryLess(a, b)
         IN <<first>> \o IndexOrder(E \ {first})

Range(s) == {s[i] : i \in 1..Len(s)}

(***************************************************************************)
(* Engine side of struct flintdb_table.                                    *)
(***************************************************************************)
IndexKey(ix, row) == row[IndexColumn(ix)]

IndexEntry(ix, rid, row) == [key |-> IndexKey(ix, row), rowid |-> rid]

IndexAdd(index, rid, row) ==
    [ix \in IndexNames |-> index[ix] \cup {IndexEntry(ix, rid, row)}]

IndexRemove(index, rid, row) ==
    [ix \in IndexNames |-> index[ix] \ {IndexEntry(ix, rid, row)}]

DataPut(data, rid, row) ==
    [r \in DOMAIN data \cup {rid} |-> IF r = rid THEN row ELSE data[r]]

DataRemove(data, rid) == [r \in DOMAIN data \ {rid} |-> data[r]]

\* Row id stored under the row's primary key, -1 when there is none.
PrimaryLookup(index, row) ==
    LET hits == {e.rowid : e \in {x \in index["primary"] :
                                    x.key = IndexKey("primary", row)}}
    IN IF hits = {} THEN -1 ELSE SetMin(hits)

\* A fresh row id: the counter, never an id that was handed out before.
FreshRowidReuse(data, next) ==
    IF DOMAIN data = {} THEN next
    ELSE (CHOOSE m \in DOMAIN data : \A r \in DOMAIN data : r <= m) + 1

FreshRowid(data, next) == next

\* What a mutation hands back: the table afterwards, the returned value, the
\* error descriptor ("" when none) and whether a new row was inserted.
Outcome(data, index, next, ret, err, inserted) ==
    [data |-> data, index |-> index, next |-> next,
     ret |-> ret, err |-> err, inserted |-> inserted]

\* An index update that fails after the data write: the data write is undone.
OnIndexFailureKeep(data, index, next, data1) ==
    Outcome(data1, index, next, -1, "IOError", FALSE)

OnIndexFailure(data, index, next, data1) ==
    Outcome(data, index, next, -1, "IOError", FALSE)

FailPoints == {"none", "data", "index"}

table_apply_at(data, index, next, rowid, row, fail) ==
    IF rowid \notin DOMAIN data
    THEN Outcome(data, index, next, -1, "NotFound", FALSE)
    ELSE IF PrimaryLookup(index, row) \notin {-1, rowid}
    THEN Outcome(data, index, next, -1, "DuplicateKey", FALSE)
    ELSE IF fail = "data"
    THEN Outcome(data, index, next, -1, "IOError", FALSE)
    ELSE LET data1 == DataPut(data, rowid, row)
         IN IF fail = "index"
            THEN OnIndexFailure(data, index, next, data1)
            ELSE Outcome(data1,
                         IndexAdd(IndexRemove(index, rowid, data[rowid]),
                                  rowid, row),
                         next, rowid, "", FALSE)

table_apply(data, index, next, row, upsert, fail) ==
    LET found == PrimaryLookup(index, row)
    IN IF found >= 0 /\ upsert = 0
       THEN Outcome(data, index, next, -1, "DuplicateKey", FALSE)
       ELSE IF found >= 0
       THEN table_apply_at(data, index, next, found, row, fail)
       ELSE IF fail = "data"
       THEN Outcome(data, index, next, -1, "IOError", FALSE)
       ELSE LET rid == FreshRowid(data, next)
                data1 == DataPut(data, rid, row)
            IN IF fail = "index"
               THEN OnIndexFailure(data, index, next, data1)
               ELSE Outcome(data1, IndexAdd(index, rid, row), rid + 1,
                            rid, "", TRUE)

table_delete_at(data, index, next, rowid, fail) ==
    IF rowid \notin DOMAIN data
    THEN Outcome(data, index, next, -1, "NotFound", FALSE)
    ELSE IF fail = "data"
    THEN Outcome(data, index, next, -1, "IOError", FALSE)
    ELSE LET data1 == DataRemove(data, rowid)
         IN IF fail = "index"
            THEN OnIndexFailure(data, index, next, data1)
            ELSE Outcome(data1, IndexRemove(index, rowid, data[rowid]),
                         next, rowid, "", FALSE)

\* read: the stored row, or NotFound.
table_read(data, rowid) ==
    IF rowid \in DOMAIN data THEN [err |-> "", found |-> TRUE]
    ELSE [err |-> "NotFound", found |-> FALSE]

\* A scan that walks one index in index order.  A predicate on the index's
\* key column is decided on the keys, any other on the row read by row id.
FindByIndex(data, index, ix, pred) ==
    LET entries == IndexOrder(index[ix])
        hit(e) == IF pred = EmptyPred THEN TRUE
                  ELSE IF pred.col = IndexColumn(ix)
                  THEN Compare(pred.op, e.key, pred.val)
                  ELSE e.rowid \in DOMAIN data /\ Sat(data[e.rowid], pred)
        ids == [i \in 1..Len(entries) |-> entries[i].rowid]
    IN SelectSeq(ids, LAMBDA r :
            \E i \in 1..Len(entries) : entries[i].rowid = r /\ hit(entries[i]))

\* A scan of the data store in storage order.
FullScan(data, pred) ==
    SelectSeq(Ascending(DOMAIN data), LAMBDA r : Sat(data[r], pred))

\* find: the index whose key column the predicate tests, else a full scan.
table_find(data, index, pred) ==
    IF pred # EmptyPred /\ \E ix \in IndexNames : IndexColumn(ix) = pred.col
    THEN FindByIndex(data, index,
                     CHOOSE ix \in IndexNames : IndexColumn(ix) = pred.col,
                     pred)
    ELSE FullScan(data, pred)

\* struct flintdb_cursor_i64: next yields the ids, then the negative sentinel.
cursor_i64_next(ids, pos) == IF pos <= Len(ids) THEN ids[pos] ELSE -1

(***************************************************************************)
(* Binding side: class CursorI64 and class Table.                          *)
(***************************************************************************)
\* _raise_if_err: an error descriptor that is set raises FlintDBError.
raise_if_err(err) == err # ""

\* CursorI64.__next__ driven by a for loop: the ids before the first negative.
RECURSIVE CursorI64_iter_positive(_, _)
CursorI64_iter_positive(ids, pos) ==
    LET v == cursor_i64_next(ids, pos)
    IN IF v <= 0 THEN <<>> ELSE <<v>> \o CursorI64_iter_positive(ids, pos + 1)

RECURSIVE CursorI64_iter_from(_, _)
CursorI64_iter_from(ids, pos) ==
    LET v == cursor_i64_next(ids, pos)
    IN IF v < 0 THEN <<>> ELSE <<v>> \o CursorI64_iter_from(ids, pos + 1)

CursorI64_iter(ids) == CursorI64_iter_from(ids, 1)

\* One call through the binding: the error descriptor the engine set ("" when
\* none), the FlintDBError the wrapper raised ("" when none), the value it
\* returned, and whether the call inserted a new row.
Last(op, err, raised, ret, inserted) ==
    [op |-> op, err |-> err, raised |-> raised, ret |-> ret,
     inserted |-> inserted]

\* The tutorial's CRUD scenario as a monitor of the calls made on a fresh
\* table: three inserts (ids 1,2,3; ages 30,31,32), then the delete of the
\* row found by "WHERE id = 3".  Any other effective mutation leaves it.
ScriptAfterApply(script, row, out) ==
    IF out.err # "" THEN script
    ELSE IF script \in 0..2 /\ row = TutorialRow(script) /\ out.inserted
    THEN script + 1
    ELSE -1

ScriptAfterDelete(script, data, rowid, out) ==
    IF out.err # "" THEN script
    ELSE IF script = 3 /\ data[rowid].id = 3 THEN 4
    ELSE -1

\* Table.apply: check_dup is handed to the engine as its upsert argument.
Table_apply(row, check_dup, fail) ==
    LET out == table_apply(tblData, tblIndex, tblNextRowid, row,
                           IF check_dup THEN 1 ELSE 0, fail)
        raised == IF raise_if_err(out.err) THEN out.err
                  ELSE IF out.ret < 0 THEN "apply returned < 0" ELSE ""
    IN /\ Cardinality(tblAssigned) < MaxRowids
       /\ tblData' = out.data
       /\ tblIndex' = out.index
       /\ tblNextRowid' = out.next
       /\ tblAssigned' = IF out.inserted THEN tblAssigned \cup {out.ret}
                         ELSE tblAssigned
       /\ tblLast' = Last("apply", out.err, raised,
                          IF raised = "" THEN out.ret ELSE -1, out.inserted)
       /\ tblScript' = ScriptAfterApply(tblScript, row, out)

\* apply_at is declared in struct flintdb_table; the call is the engine's.
Table_apply_at(rowid, row, fail) ==
    LET out == table_apply_at(tblData, tblIndex, tblNextRowid, rowid, row, fail)
    IN /\ tblData' = out.data
       /\ tblIndex' = out.index
       /\ tblNextRowid' = out.next
       /\ tblAssigned' = tblAssigned
       /\ tblLast' = Last("apply_at", out.err, out.err, out.ret, FALSE)
       /\ tblScript' = IF out.err # "" THEN tblScript ELSE -1

Table_delete_at_result_swallow(out) == [raised |-> "", ret |-> out.ret]

\* Table.delete_at: raise on an error descriptor, else return int(r).
Table_delete_at_result(out) ==
    IF raise_if_err(out.err) THEN [raised |-> out.err, ret |-> -1]
    ELSE [raised |-> "", ret |-> out.ret]

Table_delete_at(rowid, fail) ==
    LET out == table_delete_at(tblData, tblIndex, tblNextRowid, rowid, fail)
        res == Table_delete_at_result(out)
    IN /\ tblData' = out.data
       /\ tblIndex' = out.index
       /\ tblNextRowid' = out.next
       /\ tblAssigned' = tblAssigned
       /\ tblLast' = Last("delete_at", out.err, res.raised, res.ret,
                          FALSE)
       /\ tblScript' = ScriptAfterDelete(tblScript, tblData, rowid, out)

\* Table.find followed by the for loop over the cursor it returns.
Table_find_ids(data, index, pred) == CursorI64_iter(table_find(data, index, pred))

\* The call as the tutorial makes it: the number of ids the loop visited.
Table_find(pred) ==
    /\ tblLast' = Last("find", "", "",
                       Len(Table_find_ids(tblData, tblIndex, pred)), FALSE)
    /\ UNCHANGED <<tblData, tblIndex, tblNextRowid, tblAssigned, tblScript>>

\* Table.read: raise on an error descriptor or a NULL row, else the borrowed row.
Table_read_raised(data, rowid) ==
    LET r == table_read(data, rowid)
    IN IF raise_if_err(r.err) THEN r.err
       ELSE IF ~r.found THEN "read returned NULL" ELSE ""

Table_read(rowid) ==
    LET raised == Table_read_raised(tblData, rowid)
    IN /\ tblLast' = Last("read", table_read(tblData, rowid).err, raised,
                          IF raised = "" THEN rowid ELSE -1, FALSE)
       /\ UNCHANGED <<tblData, tblIndex, tblNextRowid, tblAssigned, tblScript>>


RowidArgs == 0..MaxRowids

TableInit ==
    /\ tblData = <<>>
    /\ tblIndex = [ix \in IndexNames |-> {}]
    /\ tblNextRowid = 0
    /\ tblAssigned = {}
    /\ tblLast = Last("open", "", "", 0, FALSE)
    /\ tblScript = 0

TableNext ==
    \/ \E row \in Rows, check_dup \in BOOLEAN, fail \in FailPoints :
          Table_apply(row, check_dup, fail) /\ UNCHANGED OtherThanTbl
    \/ \E rowid \in RowidArgs, row \in Rows, fail \in FailPoints :
          Table_apply_at(rowid, row, fail) /\ UNCHANGED OtherThanTbl
    \/ \E rowid \in RowidArgs, fail \in FailPoints :
          Table_delete_at(rowid, fail) /\ UNCHANGED OtherThanTbl
    \/ \E pred \in TutorialPreds :
          Table_find(pred) /\ UNCHANGED OtherThanTbl
    \/ \E rowid \in RowidArgs :
          Table_read(rowid) /\ UNCHANGED OtherThanTbl

(***************************************************************************)
(* FlatFile (struct flintdb_genericfile): delimited text, one record per   *)
(* row, fields in declaration order, delimiter-valued payloads escaped.    *)
(* tutorial_tsv_create: columns product_id (int32) and product_name        *)
(* (string); the double column price is left out of the model.             *)
(***************************************************************************)
TAB == "\t"

NL == "\n"

BSL == "\\"

\* Characters of a product name: a letter that is also an escape letter, the
\* delimiter and the escape character.
Chars == {"t", TAB, BSL}

ProductIdBase == 101

RECURSIVE SeqsUpTo(_, _)
SeqsUpTo(S, n) ==
    IF n = 0 THEN {<<>>}
    ELSE LET shorter == SeqsUpTo(S, n - 1)
         IN shorter \cup {Append(s, c) : s \in shorter, c \in S}

ProductNames == SeqsUpTo(Chars, MaxNameLen)

DigitChars == <<"0", "1", "2", "3", "4", "5", "6", "7", "8", "9">>

RECURSIVE FormatInt(_)
FormatInt(n) ==
    IF n < 10 THEN <<DigitChars[n + 1]>>
    ELSE Append(FormatInt(n \div 10), DigitChars[(n % 10) + 1])

IsDigit(c) == \E d \in 1..10 : DigitChars[d] = c

DigitValue(c) == (CHOOSE d \in 1..10 : DigitChars[d] = c) - 1

\* The integer a field of digits denotes, -1 for any other field.
RECURSIVE ParseDigits(_, _)
ParseDigits(s, acc) ==
    IF s = <<>> THEN acc
    ELSE ParseDigits(Tail(s), acc * 10 + DigitValue(Head(s)))

ParseInt(s) ==
    IF s # <<>> /\ \A i \in 1..Len(s) : IsDigit(s[i])
    THEN ParseDigits(s, 0) ELSE -1

EscapeFieldNone(s) == s

\* A backslash escape for the delimiter, the record terminator and itself.
RECURSIVE EscapeField(_)
EscapeField(s) ==
    IF s = <<>> THEN <<>>
    ELSE (CASE Head(s) = TAB -> <<BSL, "t">>
            [] Head(s) = NL  -> <<BSL, "n">>
            [] Head(s) = BSL -> <<BSL, BSL>>
            [] OTHER         -> <<Head(s)>>) \o EscapeField(Tail(s))

RECURSIVE UnescapeField(_)
UnescapeField(s) ==
    IF s = <<>> THEN <<>>
    ELSE IF Head(s) = BSL /\ Len(s) >= 2
    THEN (CASE s[2] = "t" -> <<TAB>>
            [] s[2] = "n" -> <<NL>>
            [] OTHER      -> <<s[2]>>) \o UnescapeField(Tail(Tail(s)))
    ELSE <<Head(s)>> \o UnescapeField(Tail(s))

\* The pieces of s between occurrences of the separator; a backslash takes
\* the character after it along.
RECURSIVE SplitFrom(_, _, _)
SplitFrom(s, sep, piece) ==
    IF s = <<>> THEN <<piece>>
    ELSE IF Head(s) = BSL /\ Len(s) >= 2
    THEN SplitFrom(Tail(Tail(s)), sep, piece \o <<s[1], s[2]>>)
    ELSE IF Head(s) = sep
    THEN <<piece>> \o SplitFrom(Tail(s), sep, <<>>)
    ELSE SplitFrom(Tail(s), sep, Append(piece, Head(s)))

Split(s, sep) == SplitFrom(s, sep, <<>>)

SerializeRow(row) ==
    FormatInt(row.product_id) \o <<TAB>> \o EscapeField(row.product_name)
        \o <<NL>>

FieldOr(fields, i) == IF i <= Len(fields) THEN fields[i] ELSE <<>>

ParseRecord(line) ==
    LET fields == Split(line, TAB)
    IN [product_id |-> ParseInt(FieldOr(fields, 1)),
        product_name |-> UnescapeField(FieldOr(fields, 2)),
        fields |-> Len(fields)]

\* The records of the file: every NL-terminated line.
Records(bytes) ==
    LET pieces == Split(bytes, NL)
    IN SubSeq(pieces, 1, Len(pieces) - 1)

genericfile_find(bytes) ==
    LET lines == Records(bytes)
    IN [i \in 1..Len(lines) |-> ParseRecord(lines[i])]

genericfile_write(bytes, count, row) ==
    [bytes |-> bytes \o SerializeRow(row), count |-> count + 1,
     ret |-> count + 1]

\* struct flintdb_cursor_row: next yields the rows, then the null row.
NullRow == [product_id |-> -1, product_name |-> <<>>, fields |-> 0]

cursor_row_next(rows, pos) == IF pos <= Len(rows) THEN rows[pos] ELSE NullRow

\* CursorRow.__next__ driven by a for loop: the rows before the first None.
RECURSIVE CursorRow_iter_from(_, _)
CursorRow_iter_from(rows, pos) ==
    LET r == cursor_row_next(rows, pos)
    IN IF r = NullRow THEN <<>> ELSE <<r>> \o CursorRow_iter_from(rows, pos + 1)

CursorRow_iter(rows) == CursorRow_iter_from(rows, 1)

\* GenericFile.find("") and the loop over its cursor.
GenericFile_find_rows(bytes) == CursorRow_iter(genericfile_find(bytes))

\* The row as the tutorial fills it: product_id 101 + i in iteration i.
ProductRow(i, name) ==
    [product_id |-> ProductIdBase + i, product_name |-> name, fields |-> 2]

GenericFile_write(name) ==
    LET row == ProductRow(gfCount, name)
        out == genericfile_write(gfBytes, gfCount, row)
    IN /\ gfCount < MaxWrites
       /\ gfBytes' = out.bytes
       /\ gfCount' = out.count
       /\ gfWritten' = Append(gfWritten, row)
       /\ gfLast' = [op |-> "write", ret |-> out.ret]

GenericFile_find ==
    /\ gfLast' = [op |-> "find", ret |-> Len(GenericFile_find_rows(gfBytes))]
    /\ UNCHANGED <<gfBytes, gfCount, gfWritten>>

FlatInit ==
    /\ gfBytes = <<>>
    /\ gfCount = 0
    /\ gfWritten = <<>>
    /\ gfLast = [op |-> "open", ret |-> 0]

FlatNext ==
    \/ \E name \in ProductNames : GenericFile_write(name) /\ UNCHANGED OtherThanGf
    \/ GenericFile_find /\ UNCHANGED OtherThanGf

Matching(data, pred) == {r \in DOMAIN data : Sat(data[r], pred)}

\* The ids a for loop over the cursor of an index scan visits.
IndexScanIds(data, index, ix, pred) ==
    CursorI64_iter(FindByIndex(data, index, ix, pred))

FullScanIds(data, pred) == CursorI64_iter(FullScan(data, pred))

NoDuplicates(s) == Cardinality(Range(s)) = Len(s)

\* The id column of the rows a find yields, each read back by its row id.
FoundCustomerIds(pred) ==
    {tblData[r].id : r \in Range(Table_find_ids(tblData, tblIndex, pred))}

NoDanglingIndexEntry ==
    \A ix \in IndexNames : \A e \in tblIndex[ix] : e.rowid \in DOMAIN tblData

\* C1: after any sequence of apply / apply_at / delete_at, for every index and
\* every predicate, a find that uses that index yields exactly the row ids of
\* the stored rows whose column values satisfy the predicate, the same set as
\* a full scan that evaluates the predicate row by row (and as Table.find).
C1_FindMatchesFullScan ==
    \A pred \in Preds :
        /\ \A ix \in IndexNames :
              /\ Range(IndexScanIds(tblData, tblIndex, ix, pred))
                     = Matching(tblData, pred)
              /\ NoDuplicates(IndexScanIds(tblData, tblIndex, ix, pred))
        /\ Range(FullScanIds(tblData, pred)) = Matching(tblData, pred)
        /\ Range(Table_find_ids(tblData, tblIndex, pred))
               = Range(FullScanIds(tblData, pred))

\* C1 witness: a delete has just succeeded on a table that still holds a row
\* with a row id above 0, which some comparison selects and another rejects.
C1_Witness ==
    /\ tblLast.op = "delete_at" /\ tblLast.raised = ""
    /\ \E r \in DOMAIN tblData : r > 0
    /\ \E p, q \in Preds \ {EmptyPred} :
          /\ Matching(tblData, p) # {}
          /\ Matching(tblData, q) = {}

\* C2: on the customer table, after the inserts of ids 1,2,3 with ages
\* 30,31,32 the find for age >= 31 yields exactly the rows with ids {2,3};
\* after the delete of the row with id 3 the find with the empty predicate
\* yields exactly the rows with ids {1,2}.
C2_TutorialCrud ==
    /\ tblScript = 3 =>
          FoundCustomerIds([col |-> "age", op |-> ">=", val |-> AgeBase + 1])
              = {2, 3}
    /\ tblScript = 4 => FoundCustomerIds(EmptyPred) = {1, 2}

\* C2 witness: the scenario ran to its end and the last call was a find that
\* visited two rows.
C2_Witness == tblScript = 4 /\ tblLast.op = "find" /\ tblLast.ret = 2

\* C3: Table.apply(row, check_dup) with check_dup set and a row whose primary
\* key equals that of a stored row fails with DuplicateKey, returns no row
\* id, and leaves the stored rows and every index as they were.
C3_CheckDupRejects ==
    [][\A row \in Rows :
          (/\ tblLast'.op = "apply"
           /\ Table_apply(row, TRUE, "none")
           /\ \E r \in DOMAIN tblData : tblData[r].id = row.id)
          => (/\ tblLast'.raised = "DuplicateKey"
              /\ tblLast'.ret = -1
              /\ tblData' = tblData
              /\ tblIndex' = tblIndex)]_vars

\* C4: every successful Table.apply that inserts a row returns a non-negative
\* row id strictly greater than every row id the table handed out before,
\* the ids of rows deleted since included.
C4_RowidsMonotonic ==
    [][(tblLast'.op = "apply" /\ tblLast'.inserted)
          => (/\ tblLast'.raised = ""
              /\ tblLast'.ret >= 0
              /\ \A r \in tblAssigned : tblLast'.ret > r)]_vars

\* C4 witness: an insert has just returned its row id while a row id handed
\* out earlier belongs to a row that has been deleted.
C4_Witness ==
    /\ tblLast.op = "apply" /\ tblLast.inserted
    /\ \E r \in tblAssigned : r # tblLast.ret /\ r \notin DOMAIN tblData

\* C5: delete_at of a stored row id removes the row and its index entries and
\* returns that row id, so that read of it fails with NotFound and no find
\* yields it; delete_at of a row id that is not stored fails with NotFound
\* and leaves rows and indexes unchanged.
C5_DeleteAt ==
    [][tblLast'.op = "delete_at" =>
          \A rowid \in RowidArgs :
             Table_delete_at(rowid, "none")
             => IF rowid \in DOMAIN tblData
                THEN /\ tblLast'.raised = "" /\ tblLast'.ret = rowid
                     /\ Table_read_raised(tblData', rowid) = "NotFound"
                     /\ \A pred \in Preds :
                           /\ rowid \notin Range(Table_find_ids(tblData', tblIndex', pred))
                           /\ \A ix \in IndexNames :
                                 rowid \notin Range(IndexScanIds(tblData', tblIndex', ix, pred))
                     /\ \A ix \in IndexNames : \A e \in tblIndex'[ix] : e.rowid # rowid
                ELSE /\ tblLast'.raised = "NotFound"
                     /\ tblData' = tblData
                     /\ tblIndex' = tblIndex]_vars

\* C5 witness: delete_at has just returned the id of a row that is gone.
C5_Witness ==
    /\ tblLast.op = "delete_at" /\ tblLast.raised = ""
    /\ tblLast.ret >= 0 /\ tblLast.ret \notin DOMAIN tblData

\* A mutation whose data write or index update fails is reported as failed
\* and leaves rows and indexes, hence every read and find, as committed.
FailureLeavesCommitted ==
    (tblLast'.op \in {"apply", "apply_at", "delete_at"} /\ tblLast'.err # "")
    => (/\ tblLast'.raised # ""
        /\ tblData' = tblData
        /\ tblIndex' = tblIndex
        /\ \A rowid \in RowidArgs :
              Table_read_raised(tblData', rowid)
                  = Table_read_raised(tblData, rowid)
        /\ Table_find_ids(tblData', tblIndex', EmptyPred)
               = Table_find_ids(tblData, tblIndex, EmptyPred))

\* C6: when a step of a multi-step mutation fails, the operation is reported
\* as failed and read/find answer as in the last committed state; in no
\* reachable state does an index hold an entry for a row id the data store
\* does not contain.
C6_FailureAtomic ==
    [][FailureLeavesCommitted /\ NoDanglingIndexEntry']_vars

\* C6 witness: a mutation has just failed on an I/O error on a table that
\* holds rows.
C6_Witness ==
    /\ tblLast.op \in {"apply", "apply_at", "delete_at"}
    /\ tblLast.err = "IOError" /\ tblLast.raised = "IOError"
    /\ DOMAIN tblData # {}

\* The same table driven with the rows of the tutorial only.
TutorialNext ==
    \/ \E row \in TutorialRows, check_dup \in BOOLEAN, fail \in FailPoints :
          Table_apply(row, check_dup, fail) /\ UNCHANGED OtherThanTbl
    \/ \E rowid \in RowidArgs, row \in TutorialRows, fail \in FailPoints :
          Table_apply_at(rowid, row, fail) /\ UNCHANGED OtherThanTbl
    \/ \E rowid \in RowidArgs, fail \in FailPoints :
          Table_delete_at(rowid, fail) /\ UNCHANGED OtherThanTbl
    \/ \E pred \in TutorialPreds :
          Table_find(pred) /\ UNCHANGED OtherThanTbl
    \/ \E rowid \in RowidArgs :
          Table_read(rowid) /\ UNCHANGED OtherThanTbl

(***************************************************************************)
(* FileSort (struct flintdb_filesort) and tutorial_filesort: rows of an    *)
(* int32 column value and a string column label.                           *)
(***************************************************************************)
INT32_MAX == 2147483647

INT32_MIN == -INT32_MAX - 1

SortValues == {INT32_MIN, -1, 1, INT32_MAX}

SortLabels == {"a", "b"}

SortRows == [value : SortValues, label : SortLabels]

\* compare_by_value: a.get_i32(0) - b.get_i32(0) on Python's unbounded
\* integers, represented by its sign.
compare_by_value(a, b) ==
    IF a.value < b.value THEN -1 ELSE IF a.value > b.value THEN 1 ELSE 0

\* Whether a.value - b.value is a value of the C type int, decided without
\* forming the difference.
FitsCInt(a, b) ==
    IF b.value >= 0 THEN a.value >= INT32_MIN + b.value
    ELSE a.value <= INT32_MAX + b.value

\* The callback _cmpr of FileSort.sort, declared to return int: a result of
\* compare that is no C int cannot be converted, and the callback then gives
\* the engine its default result 0.
FileSort_cmpr(a, b) == IF FitsCInt(a, b) THEN compare_by_value(a, b) ELSE 0

\* Merge of two sorted runs; on a tie the row of the earlier run goes first.
RECURSIVE Merge(_, _)
Merge(l, r) ==
    IF l = <<>> THEN r
    ELSE IF r = <<>> THEN l
    ELSE IF FileSort_cmpr(Head(l), Head(r)) <= 0
    THEN <<Head(l)>> \o Merge(Tail(l), r)
    ELSE <<Head(r)>> \o Merge(l, Tail(r))

\* struct flintdb_filesort.sort: a stable merge sort of the spooled rows.
RECURSIVE filesort_sort(_)
filesort_sort(rows) ==
    IF Len(rows) <= 1 THEN rows
    ELSE LET mid == Len(rows) \div 2
         IN Merge(filesort_sort(SubSeq(rows, 1, mid)),
                  filesort_sort(SubSeq(rows, mid + 1, Len(rows))))

filesort_add(rows, row) == [rows |-> Append(rows, row), ret |-> Len(rows) + 1]

filesort_rows(rows) == Len(rows)

NullSortRow == [value |-> 0, label |-> ""]

filesort_read(rows, i) ==
    IF 0 <= i /\ i < Len(rows)
    THEN [row |-> rows[i + 1], err |-> ""]
    ELSE [row |-> NullSortRow, err |-> "IndexOutOfRange"]

FsLast(op, raised, ret, row) ==
    [op |-> op, raised |-> raised, ret |-> ret, row |-> row, owned |-> FALSE]

FileSort_add(row) ==
    LET out == filesort_add(fsRows, row)
    IN /\ Len(fsAdded) < MaxSortRows
       /\ fsRows' = out.rows
       /\ fsSorted' = FALSE
       /\ fsAdded' = Append(fsAdded, row)
       /\ fsLast' = FsLast("add", "", out.ret, NullSortRow)

FileSort_sort ==
    /\ fsRows' = filesort_sort(fsRows)
    /\ fsSorted' = TRUE
    /\ fsLast' = FsLast("sort", "", filesort_rows(fsRows), NullSortRow)
    /\ UNCHANGED fsAdded

\* FileSort.read: raise on an error descriptor, else Row.owned(r).
FileSort_read_out(rows, i) ==
    LET out == filesort_read(rows, i)
    IN IF raise_if_err(out.err)
       THEN FsLast("read", out.err, i, NullSortRow)
       ELSE [FsLast("read", "", i, out.row) EXCEPT !.owned = TRUE]

FileSort_read(i) ==
    /\ fsSorted
    /\ fsLast' = FileSort_read_out(fsRows, i)
    /\ UNCHANGED <<fsRows, fsSorted, fsAdded>>

\* tutorial_filesort: count = fs.rows(), then fs.read(i) for i in range(count).
FileSort_read_all(rows) ==
    [k \in 1..filesort_rows(rows) |-> FileSort_read_out(rows, k - 1).row]

SortInit ==
    /\ fsRows = <<>>
    /\ fsSorted = FALSE
    /\ fsAdded = <<>>
    /\ fsLast = FsLast("new", "", 0, NullSortRow)

SortNext ==
    \/ \E row \in SortRows : FileSort_add(row) /\ UNCHANGED OtherThanFs
    \/ FileSort_sort /\ UNCHANGED OtherThanFs
    \/ \E i \in -1..MaxSortRows : FileSort_read(i) /\ UNCHANGED OtherThanFs

Count(s, x) == Cardinality({i \in 1..Len(s) : s[i] = x})

SameMultiset(s, t) ==
    /\ Len(s) = Len(t)
    /\ \A x \in Range(s) \cup Range(t) : Count(s, x) = Count(t, x)

\* The rows of s with the value v, in the order of s.
WithValue(s, v) == SelectSeq(s, LAMBDA r : r.value = v)

\* C8: after sort, reading ordinals 0..rows()-1 yields every added row
\* exactly once, and for every i < j the comparator applied to the rows at
\* ordinals i and j is not positive.
C8_SortOrdersRows ==
    fsSorted =>
        LET s == FileSort_read_all(fsRows)
        IN /\ SameMultiset(s, fsAdded)
           /\ \A i \in 1..Len(s), j \in 1..Len(s) :
                 i < j => compare_by_value(s[i], s[j]) <= 0

\* C9: rows for which the comparator returns zero keep the order in which
\* they were added, and a second sort leaves the ordinal sequence as it is.
C9_SortStable ==
    [][fsLast'.op = "sort" =>
          /\ \A v \in SortValues :
                WithValue(FileSort_read_all(fsRows'), v) = WithValue(fsAdded', v)
          /\ fsSorted => fsRows' = fsRows]_vars

\* The rows of s whose value is below v, or at most v.
Below(s, v) == Cardinality({k \in 1..Len(s) : s[k].value < v})

AtMost(s, v) == Cardinality({k \in 1..Len(s) : s[k].value <= v})

\* C19: after sort(), read(ordinal) with 0 <= ordinal < rows() returns, as
\* an owned row, the row at that position of the sorted order of the rows
\* added; any other ordinal fails with IndexOutOfRange; either way the
\* spooled rows and their order stay as they were.
C19_ReadAfterSort ==
    [][\A i \in -1..MaxSortRows :
          FileSort_read(i) =>
             /\ fsRows' = fsRows
             /\ IF 0 <= i /\ i < filesort_rows(fsRows)
                THEN /\ fsLast'.raised = ""
                     /\ fsLast'.owned
                     /\ fsLast'.row \in Range(fsAdded)
                     /\ Below(fsAdded, fsLast'.row.value) <= i
                     /\ i < AtMost(fsAdded, fsLast'.row.value)
                ELSE fsLast'.raised = "IndexOutOfRange"]_vars

(***************************************************************************)
(* Aggregate (struct flintdb_aggregate) and tutorial_aggregate: sales rows *)
(* grouped by category with count, sum(quantity) and avg(price).           *)
(* Prices are exact decimals, written in cents.                            *)
(***************************************************************************)
StringV(s) == [kind |-> "STRING", val |-> s]

NilV == [kind |-> "NIL", val |-> ""]

Sale(product, category, quantity, price) ==
    [product |-> product, category |-> category, quantity |-> quantity,
     price |-> price]

\* The sales of tutorial_aggregate.
TutorialSales ==
    {Sale("Apple", StringV("Fruit"), 10, 150),
     Sale("Banana", StringV("Fruit"), 15, 80),
     Sale("Carrot", StringV("Vegetable"), 8, 120),
     Sale("Tomato", StringV("Vegetable"), 12, 200),
     Sale("Orange", StringV("Fruit"), 7, 180)}

\* The rows folded: the tutorial's, and rows whose category is the empty
\* string or is not set.
AggRows ==
    TutorialSales \cup {Sale("Apple", StringV(""), 10, 150),
                        Sale("Apple", NilV, 10, 150)}

GroupBys == <<[alias |-> "category", column |-> "category", type |-> "STRING"]>>

Funcs ==
    <<[name |-> "count", column |-> "*", alias |-> "count"],
      [name |-> "sum", column |-> "quantity", alias |-> "total_quantity"],
      [name |-> "avg", column |-> "price", alias |-> "avg_price"]>>

\* struct flintdb_aggregate_groupby.get, for every group-by expression.
GroupKey(r) == [g \in 1..Len(GroupBys) |-> r[GroupBys[g].column]]

VariantEqualsByValue(a, b) == a.val = b.val

\* Variant equality: kind and value must match.
VariantEquals(a, b) == a.kind = b.kind /\ a.val = b.val

GroupKeyEquals(k1, k2) ==
    /\ Len(k1) = Len(k2)
    /\ \A g \in 1..Len(k1) : VariantEquals(k1[g], k2[g])

RECURSIVE Gcd(_, _)
Gcd(a, b) == IF b = 0 THEN a ELSE Gcd(b, a % b)

\* A quotient cut off at whole cents.
QuotientTruncated(total, n) == [num |-> total \div n, den |-> 1]

\* An exact quotient in lowest terms.
Quotient(total, n) ==
    LET g == Gcd(total, n)
    IN [num |-> total \div g, den |-> n \div g]

EmptyAcc == [n |-> 0, total |-> 0]

\* struct flintdb_aggregate_func.row: fold r into the accumulator.
FuncFold(f, acc, r) ==
    IF f.name = "count" THEN [n |-> acc.n + 1, total |-> acc.total]
    ELSE [n |-> acc.n + 1, total |-> acc.total + r[f.column]]

\* struct flintdb_aggregate_func.compute / result: the finalized value.
FuncResult(f, acc) ==
    CASE f.name = "count" -> acc.n
      [] f.name = "sum"   -> acc.total
      [] f.name = "avg"   -> Quotient(acc.total, acc.n)

\* The position of the group of key k, 0 when there is none yet.
GroupLookup(groups, k) ==
    IF \E i \in 1..Len(groups) : GroupKeyEquals(groups[i].key, k)
    THEN CHOOSE i \in 1..Len(groups) :
            /\ GroupKeyEquals(groups[i].key, k)
            /\ \A j \in 1..(i - 1) : ~GroupKeyEquals(groups[j].key, k)
    ELSE 0

\* struct flintdb_aggregate.row: look the group up or create it, then fold
\* the row into every function's accumulator (no function has a condition).
aggregate_row(groups, r) ==
    LET k == GroupKey(r)
        at == GroupLookup(groups, k)
        known == IF at = 0
                 THEN Append(groups, [key |-> k,
                                      accs |-> [f \in 1..Len(Funcs) |-> EmptyAcc]])
                 ELSE groups
        pos == IF at = 0 THEN Len(known) ELSE at
    IN [known EXCEPT ![pos].accs =
            [f \in 1..Len(Funcs) |-> FuncFold(Funcs[f], @[f], r)]]

\* struct flintdb_aggregate.compute: one output row per group, the group-by
\* values followed by each function's result.
aggregate_compute(groups) ==
    [n |-> Len(groups),
     rows |-> [i \in 1..Len(groups) |->
                 groups[i].key \o
                 [f \in 1..Len(Funcs) |-> FuncResult(Funcs[f], groups[i].accs[f])]]]

NullAggRow == <<>>

\* Aggregate.compute: nothing for n <= 0, else the rows that are not NULL.
Aggregate_compute_result(out) ==
    IF out.n <= 0 THEN <<>>
    ELSE SelectSeq(SubSeq(out.rows, 1, out.n), LAMBDA r : r # NullAggRow)

Aggregate_row(r) ==
    /\ Len(aggFolded) < MaxAggRows
    /\ aggGroups' = aggregate_row(aggGroups, r)
    /\ aggFolded' = Append(aggFolded, r)
    /\ aggLast' = [op |-> "row", out |-> <<>>]

Aggregate_compute ==
    /\ aggLast' = [op |-> "compute",
                   out |-> Aggregate_compute_result(aggregate_compute(aggGroups))]
    /\ UNCHANGED <<aggGroups, aggFolded>>

AggInit ==
    /\ aggGroups = <<>>
    /\ aggFolded = <<>>
    /\ aggLast = [op |-> "build", out |-> <<>>]

AggNext ==
    \/ \E r \in AggRows : Aggregate_row(r) /\ UNCHANGED OtherThanAgg
    \/ Aggregate_compute /\ UNCHANGED OtherThanAgg

\* The folded rows whose group-by values are those of k, in fold order.
FoldedOf(k) == SelectSeq(aggFolded, LAMBDA r : GroupKey(r) = k)

RECURSIVE SumOf(_, _)
SumOf(rows, column) ==
    IF rows = <<>> THEN 0 ELSE rows[1][column] + SumOf(Tail(rows), column)

\* What function f yields over the rows of one group.
ExpectedResult(f, rows) ==
    CASE f.name = "count" -> Len(rows)
      [] f.name = "sum"   -> SumOf(rows, f.column)
      [] f.name = "avg"   -> Quotient(SumOf(rows, f.column), Len(rows))

ObservedKeys == {GroupKey(aggFolded[i]) : i \in 1..Len(aggFolded)}

\* C10: compute emits exactly one row per distinct GroupKey folded so far,
\* each row holding the group-by values followed by every function's result
\* in declaration order, and nothing when no row was folded; two rows are in
\* one group iff their group-by values are equal by value and kind.
C10_OneRowPerGroupKey ==
    aggLast.op = "compute" =>
        LET out == aggLast.out
        IN /\ Len(out) = Cardinality(ObservedKeys)
           /\ aggFolded = <<>> => out = <<>>
           /\ \A i \in 1..Len(out) :
                 LET k == SubSeq(out[i], 1, Len(GroupBys))
                 IN /\ Len(out[i]) = Len(GroupBys) + Len(Funcs)
                    /\ k \in ObservedKeys
                    /\ \A j \in 1..Len(out) : j # i =>
                          SubSeq(out[j], 1, Len(GroupBys)) # k
                    /\ \A f \in 1..Len(Funcs) :
                          out[i][Len(GroupBys) + f]
                              = ExpectedResult(Funcs[f], FoldedOf(k))

\* C10 witness: compute has emitted three rows for four folded rows, two of
\* one category and two whose categories differ in kind only.
C10_Witness ==
    /\ aggLast.op = "compute" /\ Len(aggLast.out) = 3
    /\ Len(aggFolded) = 4
    /\ {<<StringV("")>>, <<NilV>>} \subseteq ObservedKeys

\* The sales of the spec's example, in fold order.
ExampleSales ==
    <<Sale("Apple", StringV("Fruit"), 10, 150),
      Sale("Banana", StringV("Fruit"), 15, 80),
      Sale("Carrot", StringV("Vegetable"), 8, 120)>>

\* The example's results: Fruit 2, 25, 1.15 and Vegetable 1, 8, 1.20.
ExampleResults ==
    {<<StringV("Fruit"), 2, 25, [num |-> 115, den |-> 1]>>,
     <<StringV("Vegetable"), 1, 8, [num |-> 120, den |-> 1]>>}

\* C11: for every emitted group, count is the number of folded rows of the
\* group, sum is the sum of quantity over them and avg is the sum of price
\* over them divided by that count; the example sales give Fruit 2, 25, 1.15
\* and Vegetable 1, 8, 1.20.
C11_AggregateValues ==
    aggLast.op = "compute" =>
        /\ \A i \in 1..Len(aggLast.out) :
              LET row == aggLast.out[i]
                  mine == {j \in 1..Len(aggFolded) :
                              aggFolded[j].category = row[1]}
                  avg == row[4]
              IN /\ row[2] = Cardinality(mine)
                 /\ row[3] = SumOf(FoldedOf(<<row[1]>>), "quantity")
                 /\ avg.den > 0
                 /\ avg.num * Cardinality(mine)
                       = SumOf(FoldedOf(<<row[1]>>), "price") * avg.den
        /\ aggFolded = ExampleSales => Range(aggLast.out) = ExampleResults

\* C11 witness: compute has run over exactly the example sales and emitted
\* the two groups with the example's results.
C11_Witness ==
    /\ aggLast.op = "compute"
    /\ aggFolded = ExampleSales
    /\ Range(aggLast.out) = ExampleResults

(***************************************************************************)
(* Row (struct flintdb_row) against the customer schema of                 *)
(* tutorial_table_create: id INT64, name STRING of size 50, age INT32.     *)
(* A variant is its kind and, for a string, the length of its payload.     *)
(***************************************************************************)
NameSize == 50

SPEC_NULLABLE == 0

SPEC_NOT_NULL == 1

\* The columns as add_column declares them; spec is the nullability of name.
CustomerColumns(spec) ==
    <<[name |-> "id", type |-> "INT64", bytes |-> 0, nullspec |-> SPEC_NOT_NULL],
      [name |-> "name", type |-> "STRING", bytes |-> NameSize, nullspec |-> spec],
      [name |-> "age", type |-> "INT32", bytes |-> 0, nullspec |-> SPEC_NOT_NULL]>>

NilVariant == [type |-> "NIL", i |-> 0, length |-> 0]

IntVariant(type, v) == [type |-> type, i |-> v, length |-> 0]

StringVariant(n) == [type |-> "STRING", i |-> 0, length |-> n]

\* Payload lengths of the strings set: empty, of the column's size, one more.
NameLengths == {0, NameSize, NameSize + 1}

\* flintdb_row_new: one slot per column, every slot null.
row_new(columns) == [c \in 1..Len(columns) |-> NilVariant]

\* Whether slot c breaks its column: null in a not-null column, or a payload
\* longer than the column's size.
SlotViolates(columns, slots, c) ==
    \/ columns[c].nullspec = SPEC_NOT_NULL /\ slots[c].type = "NIL"
    \/ columns[c].bytes > 0 /\ slots[c].length > columns[c].bytes

FirstViolation(columns, slots) ==
    SetMin({c \in 1..Len(columns) : SlotViolates(columns, slots, c)})

\* struct flintdb_row.validate: false on the first violation, the failing
\* column named through the error descriptor.
row_validate(columns, slots) ==
    IF \E c \in 1..Len(columns) : SlotViolates(columns, slots, c)
    THEN [ok |-> FALSE, err |-> columns[FirstViolation(columns, slots)].name]
    ELSE [ok |-> TRUE, err |-> ""]

RowLast(op, raised, ret) == [op |-> op, raised |-> raised, ret |-> ret]

\* Row(meta): a fresh row of the schema.
Row_new(spec) ==
    /\ rowColumns' = CustomerColumns(spec)
    /\ rowSlots' = row_new(CustomerColumns(spec))
    /\ rowLast' = RowLast("new", "", TRUE)

Row_set(op, c, v) ==
    /\ rowSlots' = [rowSlots EXCEPT ![c] = v]
    /\ rowLast' = RowLast(op, "", TRUE)
    /\ UNCHANGED rowColumns

Row_set_i64(v) == Row_set("set_i64", 1, IntVariant("INT64", v))

Row_set_string(n) == Row_set("set_string", 2, StringVariant(n))

Row_set_i32(v) == Row_set("set_i32", 3, IntVariant("INT32", v))

\* Row.validate: raise on the error descriptor, else bool(ok).
Row_validate_out(columns, slots) ==
    LET out == row_validate(columns, slots)
    IN IF raise_if_err(out.err) THEN RowLast("validate", out.err, FALSE)
       ELSE RowLast("validate", "", out.ok)

Row_validate ==
    /\ rowLast' = Row_validate_out(rowColumns, rowSlots)
    /\ UNCHANGED <<rowColumns, rowSlots>>

RowInit ==
    /\ rowColumns = CustomerColumns(SPEC_NOT_NULL)
    /\ rowSlots = row_new(CustomerColumns(SPEC_NOT_NULL))
    /\ rowLast = RowLast("new", "", TRUE)

RowNext ==
    \/ \E spec \in {SPEC_NULLABLE, SPEC_NOT_NULL} :
          Row_new(spec) /\ UNCHANGED OtherThanRow
    \/ \E v \in Ids : Row_set_i64(v) /\ UNCHANGED OtherThanRow
    \/ \E n \in NameLengths : Row_set_string(n) /\ UNCHANGED OtherThanRow
    \/ \E v \in Ages : Row_set_i32(v) /\ UNCHANGED OtherThanRow
    \/ Row_validate /\ UNCHANGED OtherThanRow

\* C12: validate returns false exactly when a not-null column holds null or
\* a value exceeds its column's size, true otherwise; it reports a violation
\* as a false result, never as an exception, and leaves the row as it was.
C12_ValidateReturnsFalse ==
    [][rowLast'.op = "validate" =>
          /\ rowLast'.raised = ""
          /\ rowLast'.ret = FALSE
                <=> \E c \in 1..Len(rowColumns) :
                       SlotViolates(rowColumns, rowSlots, c)
          /\ rowSlots' = rowSlots]_vars

(***************************************************************************)
(* Meta (struct flintdb_meta): columns and indexes in declaration order,   *)
(* the schema string and its parse.  A column name is its characters; a    *)
(* default or comment text is its label and its length in bytes.           *)
(***************************************************************************)
MAX_COLUMN_NAME_LIMIT == 40

SqlBufferSize == 8192

IdName == <<"i", "d">>

AgeName == <<"a", "g", "e">>

\* A name of 39 characters, the longest that fits char[40].
LongName == [i \in 1..(MAX_COLUMN_NAME_LIMIT - 1) |-> "x"]

LongerName == LongName \o <<"y">>

ColumnNames == {IdName, AgeName, LongName}

Text(label, bytes) == [label |-> label, bytes |-> bytes]

\* A comment as the tutorial writes it, and one as long as the buffer of
\* to_sql_string.
Comments == {Text("Customer age", 12), Text("long", SqlBufferSize)}

\* add_column(name, VARIANT_INT32, spec=SPEC_NOT_NULL, default="0", comment).
ColumnArg(name, comment) ==
    [name |-> name, type |-> "INT32", bytes |-> 0, precision |-> 0,
     nullspec |-> SPEC_NOT_NULL, value |-> Text("0", 1), comment |-> comment]

ColumnArgs == {ColumnArg(n, c) : n \in ColumnNames, c \in Comments}

IndexArgNames == {"primary", "ix_age"}

KeyArgs ==
    {<<IdName>>, <<AgeName>>, <<LongName>>, <<LongerName>>, <<IdName, AgeName>>}

\* flintdb_meta_columns_add.
meta_columns_add(columns, col) ==
    IF \E c \in 1..Len(columns) : columns[c].name = col.name
    THEN [columns |-> columns, err |-> "DuplicateColumn"]
    ELSE [columns |-> Append(columns, col), err |-> ""]

\* flintdb_meta_indexes_add: keys is the array the caller filled.
meta_indexes_add(columns, indexes, name, keys) ==
    IF \E k \in 1..Len(keys) :
          ~\E c \in 1..Len(columns) : columns[c].name = keys[k]
    THEN [indexes |-> indexes, err |-> "UnknownColumn"]
    ELSE IF \E i \in 1..Len(indexes) : indexes[i].name = name
    THEN [indexes |-> indexes, err |-> "DuplicateIndex"]
    ELSE [indexes |-> Append(indexes, [name |-> name, keys |-> keys]),
          err |-> ""]

Min(a, b) == IF a <= b THEN a ELSE b

\* Meta.add_index: each key is copied into its char[40] slot, at most 39
\* bytes of it.
KeyCopy(k) == SubSeq(k, 1, Min(Len(k), MAX_COLUMN_NAME_LIMIT - 1))

(* The schema string as its tokens; a token is followed by one blank.      *)
Kw(text, bytes) == [kind |-> "kw", val |-> text, bytes |-> bytes]

NameTok(name) == [kind |-> "name", val |-> name, bytes |-> Len(name)]

WordTok(word, bytes) == [kind |-> "word", val |-> word, bytes |-> bytes]

NumTok(n) == [kind |-> "num", val |-> n, bytes |-> Len(FormatInt(n))]

TextTok(text) == [kind |-> "text", val |-> text, bytes |-> text.bytes + 2]

CutTok == [kind |-> "cut", val |-> 0, bytes |-> 0]

WordBytes(word) ==
    CASE word = "INT32" -> 5 [] word = "primary" -> 7 [] word = "ix_age" -> 6
      [] OTHER -> 0

RenderColumn(col) ==
    <<NameTok(col.name), WordTok(col.type, WordBytes(col.type)),
      NumTok(col.bytes), NumTok(col.precision), NumTok(col.nullspec),
      TextTok(col.value), TextTok(col.comment), Kw(",", 1)>>

RenderIndex(ix) ==
    <<Kw("KEY", 3), WordTok(ix.name, WordBytes(ix.name)), Kw("(", 1)>>
        \o [k \in 1..Len(ix.keys) |-> NameTok(ix.keys[k])]
        \o <<Kw(")", 1), Kw(",", 1)>>

RECURSIVE Flatten(_)
Flatten(ss) == IF ss = <<>> THEN <<>> ELSE Head(ss) \o Flatten(Tail(ss))

\* to_schema_string: columns, then indexes, each in declaration order.
RenderMeta(columns, indexes) ==
    <<Kw("CREATE TABLE", 12), Kw("(", 1)>>
        \o Flatten([c \in 1..Len(columns) |-> RenderColumn(columns[c])])
        \o Flatten([i \in 1..Len(indexes) |-> RenderIndex(indexes[i])])
        \o <<Kw(")", 1)>>

RECURSIVE StringBytes(_)
StringBytes(toks) ==
    IF toks = <<>> THEN 0 ELSE Head(toks).bytes + 1 + StringBytes(Tail(toks))

\* The first room bytes of the string: the tokens that fit, and the stump
\* of the one that does not.
RECURSIVE Truncate(_, _)
Truncate(toks, room) ==
    IF toks = <<>> THEN <<>>
    ELSE IF Head(toks).bytes + 1 <= room
    THEN <<Head(toks)>> \o Truncate(Tail(toks), room - Head(toks).bytes - 1)
    ELSE IF room > 0 THEN <<CutTok>> ELSE <<>>

ParseError == [columns |-> <<>>, indexes |-> <<>>, err |-> "ParseError"]

IsKw(tok, text) == tok.kind = "kw" /\ tok.val = text

\* The position of the first ")" at or after position p, 0 when none.
RECURSIVE CloseAt(_, _)
CloseAt(toks, p) ==
    IF p > Len(toks) THEN 0
    ELSE IF IsKw(toks[p], ")") THEN p
    ELSE CloseAt(toks, p + 1)

RECURSIVE ParseItems(_, _, _)
ParseItems(toks, columns, indexes) ==
    IF toks = <<>> THEN ParseError
    ELSE IF IsKw(toks[1], ")")
    THEN IF Len(toks) = 1
         THEN [columns |-> columns, indexes |-> indexes, err |-> ""]
         ELSE ParseError
    ELSE IF IsKw(toks[1], "KEY")
    THEN LET close == CloseAt(toks, 4)
         IN IF /\ Len(toks) >= 6 /\ toks[2].kind = "word" /\ IsKw(toks[3], "(")
               /\ close > 4 /\ close < Len(toks) /\ IsKw(toks[close + 1], ",")
               /\ \A k \in 4..(close - 1) : toks[k].kind = "name"
            THEN ParseItems(SubSeq(toks, close + 2, Len(toks)), columns,
                            Append(indexes,
                                   [name |-> toks[2].val,
                                    keys |-> [k \in 1..(close - 4) |->
                                                 toks[k + 3].val]]))
            ELSE ParseError
    ELSE IF /\ Len(toks) >= 8 /\ toks[1].kind = "name" /\ toks[2].kind = "word"
            /\ toks[3].kind = "num" /\ toks[4].kind = "num"
            /\ toks[5].kind = "num" /\ toks[6].kind = "text"
            /\ toks[7].kind = "text" /\ IsKw(toks[8], ",")
            /\ indexes = <<>>
    THEN ParseItems(SubSeq(toks, 9, Len(toks)),
                    Append(columns,
                           [name |-> toks[1].val, type |-> toks[2].val,
                            bytes |-> toks[3].val, precision |-> toks[4].val,
                            nullspec |-> toks[5].val, value |-> toks[6].val,
                            comment |-> toks[7].val]),
                    indexes)
    ELSE ParseError

\* Parsing a schema string: the inverse of rendering it.
ParseMeta(toks) ==
    IF Len(toks) >= 2 /\ IsKw(toks[1], "CREATE TABLE") /\ IsKw(toks[2], "(")
    THEN ParseItems(SubSeq(toks, 3, Len(toks)), <<>>, <<>>)
    ELSE ParseError

\* What the engine does with a string that needs more than len bytes.
Overflows == {"error", "truncate"}

\* flintdb_meta_to_sql_string(m, s, len, e): the string and its terminator
\* must fit len bytes.
meta_to_sql_string(columns, indexes, len, overflow) ==
    LET s == RenderMeta(columns, indexes)
    IN IF StringBytes(s) < len
       THEN [rc |-> 0, s |-> s, err |-> ""]
       ELSE IF overflow = "error"
       THEN [rc |-> -1, s |-> <<>>, err |-> "BufferTooSmall"]
       ELSE [rc |-> 0, s |-> Truncate(s, len - 1), err |-> ""]

MetaLast(op, raised, ret) == [op |-> op, raised |-> raised, ret |-> ret]

Raised(err) == IF raise_if_err(err) THEN err ELSE ""

Meta_add_column(col) ==
    LET out == meta_columns_add(metaColumns, col)
    IN /\ Len(metaColumns) < MaxColumns
       /\ metaColumns' = out.columns
       /\ metaLast' = MetaLast("add_column", Raised(out.err), <<>>)
       /\ UNCHANGED metaIndexes

Meta_add_index(name, keys) ==
    LET keys_arr == [k \in 1..Len(keys) |-> KeyCopy(keys[k])]
        out == meta_indexes_add(metaColumns, metaIndexes, name, keys_arr)
    IN /\ Len(metaIndexes) < MaxIndexes
       /\ metaIndexes' = out.indexes
       /\ metaLast' = MetaLast("add_index", Raised(out.err), <<>>)
       /\ UNCHANGED metaColumns

Meta_to_sql_string_out(columns, indexes, overflow) ==
    LET out == meta_to_sql_string(columns, indexes, SqlBufferSize, overflow)
    IN IF raise_if_err(out.err) THEN MetaLast("to_sql_string", out.err, <<>>)
       ELSE IF out.rc < 0
       THEN MetaLast("to_sql_string", "flintdb_meta_to_sql_string failed", <<>>)
       ELSE MetaLast("to_sql_string", "", out.s)

Meta_to_sql_string(overflow) ==
    /\ metaLast' = Meta_to_sql_string_out(metaColumns, metaIndexes, overflow)
    /\ UNCHANGED <<metaColumns, metaIndexes>>

MetaInit ==
    /\ metaColumns = <<>>
    /\ metaIndexes = <<>>
    /\ metaLast = MetaLast("new", "", <<>>)

MetaNext ==
    \/ \E col \in ColumnArgs : Meta_add_column(col) /\ UNCHANGED OtherThanMeta
    \/ \E name \in IndexArgNames, keys \in KeyArgs :
          Meta_add_index(name, keys) /\ UNCHANGED OtherThanMeta
    \/ \E overflow \in Overflows :
          Meta_to_sql_string(overflow) /\ UNCHANGED OtherThanMeta

\* C13: for any Meta built by add_column and add_index, to_sql_string gives
\* a string, and parsing it yields the Meta's columns and indexes, the same
\* entries in the same declaration order.
C13_SchemaRoundTrip ==
    metaLast.op = "to_sql_string" =>
        /\ metaLast.raised = ""
        /\ ParseMeta(metaLast.ret)
              = [columns |-> metaColumns, indexes |-> metaIndexes, err |-> ""]

IsColumn(columns, name) == \E c \in 1..Len(columns) : columns[c].name = name

IsIndex(indexes, name) == \E i \in 1..Len(indexes) : indexes[i].name = name

\* C14: add_column fails with DuplicateColumn when the name is present;
\* add_index fails with UnknownColumn when a key is not a defined column and
\* with DuplicateIndex when the index name repeats; a failed call leaves the
\* Meta unchanged; column names stay unique and every index key names an
\* existing column.
C14_MetaErrors ==
    [][/\ metaLast'.op = "add_column" =>
             \A col \in ColumnArgs :
                (Meta_add_column(col) /\ IsColumn(metaColumns, col.name))
                => metaLast'.raised = "DuplicateColumn"
       /\ metaLast'.op = "add_index" =>
             \A name \in IndexArgNames, keys \in KeyArgs :
                Meta_add_index(name, keys)
                => LET unknown == \E k \in 1..Len(keys) :
                                     ~IsColumn(metaColumns, keys[k])
                       repeats == IsIndex(metaIndexes, name)
                   IN /\ unknown /\ ~repeats
                         => metaLast'.raised = "UnknownColumn"
                      /\ repeats /\ ~unknown
                         => metaLast'.raised = "DuplicateIndex"
                      /\ unknown /\ repeats
                         => metaLast'.raised \in {"UnknownColumn", "DuplicateIndex"}
       /\ metaLast'.raised # ""
             => metaColumns' = metaColumns /\ metaIndexes' = metaIndexes
       /\ \A c, d \in 1..Len(metaColumns') :
             metaColumns'[c].name = metaColumns'[d].name => c = d
       /\ \A i \in 1..Len(metaIndexes') : \A k \in 1..Len(metaIndexes'[i].keys) :
             IsColumn(metaColumns', metaIndexes'[i].keys[k])]_vars

(***************************************************************************)
(* Cursors: class CursorI64 and class CursorRow over the engine's scans.   *)
(***************************************************************************)
MaxCursorLen == 2

MaxNextCalls == 4

\* Row ids start at 0, so 0 is an id a scan can yield.
CursorIds == 0..MaxId

CursorRows == {ProductRow(0, <<"t">>), ProductRow(1, <<"t">>)}

ScanResults(S) == UNION {[1..k -> S] : k \in 0..MaxCursorLen}

\* The engine's scan position: it moves past a value it yielded and stays
\* where it is once the scan is exhausted.
cursor_next_pos(items, pos) == IF pos <= Len(items) THEN pos + 1 ELSE pos

\* What the engine's next yields at a position, for either kind of cursor.
cursor_next(kind, items, pos) ==
    IF kind = "i64" THEN cursor_i64_next(items, pos)
    ELSE cursor_row_next(items, pos)

\* The end-of-sequence value as the binding tests it: v < 0, r == NULL.
IsSentinel(kind, v) == IF kind = "i64" THEN v < 0 ELSE v = NullRow

CurLast(op, from, ret) == [op |-> op, from |-> from, ret |-> ret]

\* CursorI64(c) as Table.find builds it, over the ids the scan will yield.
CursorI64_init(ids) ==
    /\ curKind = "none"
    /\ curKind' = "i64"
    /\ curItems' = ids
    /\ curPos' = 1
    /\ curReturned' = <<>>
    /\ curLast' = CurLast("find", 0, <<>>)

\* CursorRow(c) as GenericFile.find builds it.
CursorRow_init(rows) ==
    /\ curKind = "none"
    /\ curKind' = "row"
    /\ curItems' = rows
    /\ curPos' = 1
    /\ curReturned' = <<>>
    /\ curLast' = CurLast("find", 0, <<>>)

\* CursorI64.next / CursorRow.next: one call of the engine's next, its value
\* handed on as it is (None for the null row).
Cursor_next(kind) ==
    /\ curKind = kind
    /\ Len(curReturned) < MaxNextCalls
    /\ LET v == cursor_next(kind, curItems, curPos)
       IN /\ curReturned' = Append(curReturned, v)
          /\ curLast' = CurLast("next", Len(curReturned), <<v>>)
    /\ curPos' = cursor_next_pos(curItems, curPos)
    /\ UNCHANGED <<curKind, curItems>>

CursorI64_next == Cursor_next("i64")

CursorRow_next == Cursor_next("row")

\* A for loop over the cursor: __next__ calls next until it raises
\* StopIteration; yielded are the values __next__ returned.
Cursor_for(kind, yielded) ==
    /\ curKind = kind
    /\ Len(curReturned) < MaxNextCalls
    /\ LET calls == Len(yielded) + 1
       IN /\ curReturned' = curReturned \o
                [k \in 1..calls |-> cursor_next(kind, curItems, curPos + k - 1)]
          /\ curPos' = Min(curPos + calls, Len(curItems) + 1)
    /\ curLast' = CurLast("for", Len(curReturned), yielded)
    /\ UNCHANGED <<curKind, curItems>>

CursorI64_for == Cursor_for("i64", CursorI64_iter_from(curItems, curPos))

CursorRow_for == Cursor_for("row", CursorRow_iter_from(curItems, curPos))

CurInit ==
    /\ curKind = "none"
    /\ curItems = <<>>
    /\ curPos = 1
    /\ curReturned = <<>>
    /\ curLast = CurLast("none", 0, <<>>)

CurNext ==
    \/ \E ids \in ScanResults(CursorIds) :
          CursorI64_init(ids) /\ UNCHANGED OtherThanCur
    \/ \E rows \in ScanResults(CursorRows) :
          CursorRow_init(rows) /\ UNCHANGED OtherThanCur
    \/ CursorI64_next /\ UNCHANGED OtherThanCur
    \/ CursorRow_next /\ UNCHANGED OtherThanCur
    \/ CursorI64_for /\ UNCHANGED OtherThanCur
    \/ CursorRow_for /\ UNCHANGED OtherThanCur

\* C15: the terminal state of a cursor is absorbing: among the values next
\* has yielded, everything after an end-of-sequence value (a negative id, the
\* null row) is an end-of-sequence value again; and a loop over the binding's
\* cursor yields exactly the values before the first end-of-sequence value
\* and stops there.
C15_TerminalAbsorbing ==
    /\ \A i, j \in 1..Len(curReturned) :
          (i < j /\ IsSentinel(curKind, curReturned[i]))
          => IsSentinel(curKind, curReturned[j])
    /\ curLast.op = "for" =>
          LET n == Len(curLast.ret)
              from == curLast.from
          IN /\ Len(curReturned) = from + n + 1
             /\ \A k \in 1..n :
                   /\ curReturned[from + k] = curLast.ret[k]
                   /\ ~IsSentinel(curKind, curReturned[from + k])
             /\ IsSentinel(curKind, curReturned[from + n + 1])

C15_Witness ==
    /\ curLast.op = "for"
    /\ \E i, j \in 1..Len(curReturned) :
          /\ i < j
          /\ IsSentinel(curKind, curReturned[i])
          /\ IsSentinel(curKind, curReturned[j])
    /\ \E i \in 1..Len(curReturned) : ~IsSentinel(curKind, curReturned[i])

(***************************************************************************)
(* close() of the handle wrappers: each keeps the engine's pointer in one  *)
(* attribute and gives the engine's handle back through it.                *)
(***************************************************************************)
MaxCloses == 2

HandleKinds ==
    {"Meta", "CursorI64", "CursorRow", "Table", "GenericFile", "FileSort",
     "Aggregate", "SqlResult"}

\* The wrapper's pointer attribute after its close released the handle.
PtrAfterCloseKept(ptr) == ptr

PtrAfterClose(ptr) == "NULL"

\* close(): `if self._x != ffi.NULL: <engine close>(self._x); self._x = NULL`.
Handle_close(kind) ==
    /\ hCloses[kind] < MaxCloses
    /\ hCloses' = [hCloses EXCEPT ![kind] = @ + 1]
    /\ IF hPtr[kind] # "NULL"
       THEN /\ hReleases' = [hReleases EXCEPT ![kind] = @ + 1]
            /\ hPtr' = [hPtr EXCEPT ![kind] = PtrAfterClose(@)]
            /\ hLast' = [op |-> kind, released |-> TRUE, raised |-> ""]
       ELSE /\ UNCHANGED <<hReleases, hPtr>>
            /\ hLast' = [op |-> kind, released |-> FALSE, raised |-> ""]

Meta_close == Handle_close("Meta")

CursorI64_close == Handle_close("CursorI64")

CursorRow_close == Handle_close("CursorRow")

Table_close == Handle_close("Table")

GenericFile_close == Handle_close("GenericFile")

FileSort_close == Handle_close("FileSort")

Aggregate_close == Handle_close("Aggregate")

SqlResult_close == Handle_close("SqlResult")

\* Every wrapper right after its constructor: the engine's handle in place.
HandleInit ==
    /\ hPtr = [k \in HandleKinds |-> "live"]
    /\ hReleases = [k \in HandleKinds |-> 0]
    /\ hCloses = [k \in HandleKinds |-> 0]
    /\ hLast = [op |-> "none", released |-> FALSE, raised |-> ""]

HandleNext ==
    \/ Meta_close /\ UNCHANGED OtherThanHandle
    \/ CursorI64_close /\ UNCHANGED OtherThanHandle
    \/ CursorRow_close /\ UNCHANGED OtherThanHandle
    \/ Table_close /\ UNCHANGED OtherThanHandle
    \/ GenericFile_close /\ UNCHANGED OtherThanHandle
    \/ FileSort_close /\ UNCHANGED OtherThanHandle
    \/ Aggregate_close /\ UNCHANGED OtherThanHandle
    \/ SqlResult_close /\ UNCHANGED OtherThanHandle

MaxDrops == 3

TablePaths == {"tutorial_customer.flintdb", "tutorial_sales.flintdb"}

FilePaths == {"tutorial_products.tsv"}

\* The files that make up a table's storage: its data and its indexes.
TableFiles == {"data", "primary", "ix_age"}

\* A flat file's storage: the delimited text and its schema.
FlatFiles == {"text", "desc"}

NoFiles == [p \in TablePaths \union FilePaths |-> {}]

\* What reaches the caller of an engine function through `char **e`: the
\* engine has nowhere to put a message when the caller passes NULL.
ErrOut(e, msg) == IF e = "NULL" THEN "" ELSE msg

\* flintdb_table_drop / flintdb_genericfile_drop: remove every storage file
\* at the path, or report NotFound when there is none.
storage_drop(files, path, e) ==
    IF files[path] = {}
    THEN [files |-> files, err |-> ErrOut(e, "NotFound"), rc |-> -1]
    ELSE [files |-> [files EXCEPT ![path] = {}], err |-> "", rc |-> 0]

\* The error pointer the binding hands to the engine's drop.
DropErrPtr == "NULL"

DropLast(op, path, existed, raised) ==
    [op |-> op, path |-> path, existed |-> existed, raised |-> raised]

\* Table(path, FLINTDB_RDWR, meta): creates the storage when there is none.
Table_create(path) ==
    /\ dropFiles[path] = {}
    /\ dropFiles' = [dropFiles EXCEPT ![path] = TableFiles]
    /\ dropLast' = DropLast("Table", path, FALSE, "")
    /\ UNCHANGED dropCalls

\* GenericFile(path, FLINTDB_RDWR, meta).
GenericFile_create(path) ==
    /\ dropFiles[path] = {}
    /\ dropFiles' = [dropFiles EXCEPT ![path] = FlatFiles]
    /\ dropLast' = DropLast("GenericFile", path, FALSE, "")
    /\ UNCHANGED dropCalls

\* Table.drop / GenericFile.drop: the engine's drop with DropErrPtr as its
\* error pointer; its return value is not looked at, and what the pointer
\* received is raised only when there is a pointer to look into.
Storage_drop(op, path) ==
    /\ dropCalls < MaxDrops
    /\ dropCalls' = dropCalls + 1
    /\ LET r == storage_drop(dropFiles, path, DropErrPtr)
       IN /\ dropFiles' = r.files
          /\ dropLast' = DropLast(op, path, dropFiles[path] # {}, r.err)

Table_drop(path) == Storage_drop("Table.drop", path)

GenericFile_drop(path) == Storage_drop("GenericFile.drop", path)

DropInit ==
    /\ dropFiles = NoFiles
    /\ dropCalls = 0
    /\ dropLast = DropLast("none", "", FALSE, "")

DropNext ==
    \/ \E path \in TablePaths : Table_create(path) /\ UNCHANGED OtherThanDrop
    \/ \E path \in FilePaths :
          GenericFile_create(path) /\ UNCHANGED OtherThanDrop
    \/ \E path \in TablePaths : Table_drop(path) /\ UNCHANGED OtherThanDrop
    \/ \E path \in FilePaths :
          GenericFile_drop(path) /\ UNCHANGED OtherThanDrop

\* C17: drop(path) removes every storage file of the table or file when
\* there is any, and reports NotFound to its caller when there is none: it
\* never returns normally while storage files remain, nor when nothing
\* existed.
C17_DropOrNotFound ==
    dropLast.op \in {"Table.drop", "GenericFile.drop"} =>
        /\ dropLast.existed =>
              dropLast.raised = "" /\ dropFiles[dropLast.path] = {}
        /\ ~dropLast.existed => dropLast.raised = "NotFound"
        /\ dropLast.raised = "" => dropFiles[dropLast.path] = {}

(***************************************************************************)
(* Row ownership: Row.borrowed, Row.owned and Row.close.                   *)
(***************************************************************************)
MaxRowCloses == 2

\* The calls that hand a row to their caller.
RowSources ==
    {"Table.read", "CursorRow.next", "FileSort.read", "Aggregate.compute"}

NotObtained == [r |-> "none", owned |-> FALSE]

\* Row.borrowed(ptr) and Row.owned(ptr): the wrapper around an engine row.
Row_borrowed(ptr) == [r |-> ptr, owned |-> FALSE]

Row_owned(ptr) == [r |-> ptr, owned |-> TRUE]

\* The wrapper's row pointer after close().
RowPtrAfterCloseKept(r) == r

RowPtrAfterClose(r) == "NULL"

\* The wrapper each call returns for the engine's row.
RowFrom(source) ==
    IF source \in {"Table.read", "CursorRow.next"}
    THEN Row_borrowed("live")
    ELSE Row_owned("live")

Row_obtain(source) ==
    /\ ownRows[source] = NotObtained
    /\ ownRows' = [ownRows EXCEPT ![source] = RowFrom(source)]
    /\ ownLast' = [op |-> source, freed |-> FALSE]
    /\ UNCHANGED <<ownFrees, ownCloses>>

Table_read_row == Row_obtain("Table.read")

CursorRow_next_row == Row_obtain("CursorRow.next")

FileSort_read_row == Row_obtain("FileSort.read")

Aggregate_compute_row == Row_obtain("Aggregate.compute")

\* Row.close: `if self._r != NULL and self._owned: self._r.free(self._r)`,
\* then `self._r = NULL`.
Row_close(source) ==
    /\ ownRows[source] # NotObtained
    /\ ownCloses[source] < MaxRowCloses
    /\ ownCloses' = [ownCloses EXCEPT ![source] = @ + 1]
    /\ LET row == ownRows[source]
           frees == row.r # "NULL" /\ row.owned
       IN /\ ownFrees' = [ownFrees EXCEPT ![source] = IF frees THEN @ + 1 ELSE @]
          /\ ownRows' = [ownRows EXCEPT ![source].r = RowPtrAfterClose(@)]
          /\ ownLast' = [op |-> "close", freed |-> frees]

OwnInit ==
    /\ ownRows = [s \in RowSources |-> NotObtained]
    /\ ownFrees = [s \in RowSources |-> 0]
    /\ ownCloses = [s \in RowSources |-> 0]
    /\ ownLast = [op |-> "none", freed |-> FALSE]

OwnNext ==
    \/ Table_read_row /\ UNCHANGED OtherThanOwn
    \/ CursorRow_next_row /\ UNCHANGED OtherThanOwn
    \/ FileSort_read_row /\ UNCHANGED OtherThanOwn
    \/ Aggregate_compute_row /\ UNCHANGED OtherThanOwn
    \/ \E source \in RowSources : Row_close(source) /\ UNCHANGED OtherThanOwn

\* C18: a row from Table.read or CursorRow.next is never freed by its
\* receiver, whatever it calls; a row from FileSort.read or
\* Aggregate.compute is freed by the receiver's close exactly once, however
\* many times close is called on it.
C18_RowOwnership ==
    /\ \A s \in {"Table.read", "CursorRow.next"} : ownFrees[s] = 0
    /\ \A s \in {"FileSort.read", "Aggregate.compute"} :
          ownFrees[s] = IF ownCloses[s] >= 1 THEN 1 ELSE 0

C18_Witness ==
    /\ ownCloses["Table.read"] = MaxRowCloses
    /\ ownFrees["Table.read"] = 0
    /\ ownCloses["FileSort.read"] = MaxRowCloses
    /\ ownFrees["FileSort.read"] = 1

(***************************************************************************)
(* FileSort.add and the caller's row: the engine's rows as heap cells.     *)
(* Cell 0 is the row the caller builds and hands to add; cell k is the     *)
(* k-th row of the spool.                                                  *)
(***************************************************************************)
MaxSpool == 2

\* tutorial_filesort: values = [5, 2, ...].
SpoolValues == {5, 2}

ItemRow(v) == [value |-> v, label |-> "Item"]

FreedRow == [value |-> 0, label |-> "freed"]

CallerCell == 0

\* The cell the spool keeps for an added row: the caller's own, or a fresh one.
row_copy_shared(src, fresh) == src

row_copy(src, fresh) == fresh

\* The rows of the spool, read through the heap.
SpoolRows(heap, spool) == [k \in 1..Len(spool) |-> heap[spool[k]]]

SpLast(op, raised, ret, row) ==
    [op |-> op, raised |-> raised, ret |-> ret, row |-> row]

\* `with Row(mt) as r: r.set_i32(0, v)`: a new row in the caller's hands.
Input_new(v) ==
    /\ spHeap[CallerCell] = FreedRow
    /\ spHeap' = [spHeap EXCEPT ![CallerCell] = ItemRow(v)]
    /\ spLast' = SpLast("Row", "", 0, FreedRow)
    /\ UNCHANGED <<spSpool, spSorted, spAdds>>

\* r.set_i32(0, v) on the caller's row.
Input_set_i32(v) ==
    /\ spHeap[CallerCell] # FreedRow
    /\ spHeap[CallerCell].value # v
    /\ spHeap' = [spHeap EXCEPT ![CallerCell].value = v]
    /\ spLast' = SpLast("set_i32", "", 0, FreedRow)
    /\ UNCHANGED <<spSpool, spSorted, spAdds>>

\* The end of the with block: Row.close frees the caller's row.
Input_close ==
    /\ spHeap[CallerCell] # FreedRow
    /\ spHeap' = [spHeap EXCEPT ![CallerCell] = FreedRow]
    /\ spLast' = SpLast("close", "", 0, FreedRow)
    /\ UNCHANGED <<spSpool, spSorted, spAdds>>

\* FileSort.add(r) with a row the caller holds.
Spool_add ==
    /\ spHeap[CallerCell] # FreedRow
    /\ Len(spSpool) < MaxSpool
    /\ LET fresh == Len(spSpool) + 1
           out == filesort_add(spSpool, row_copy(CallerCell, fresh))
       IN /\ spHeap' = [spHeap EXCEPT ![fresh] = spHeap[CallerCell]]
          /\ spSpool' = out.rows
          /\ spLast' = SpLast("add", "", out.ret, FreedRow)
    /\ spSorted' = FALSE
    /\ spAdds' = Append(spAdds, spHeap[CallerCell])

\* FileSort.rows().
Spool_rows ==
    /\ spLast' = SpLast("rows", "", filesort_rows(spSpool), FreedRow)
    /\ UNCHANGED <<spHeap, spSpool, spSorted, spAdds>>

\* FileSort.sort(compare_by_value): the cells in the order of their rows.
Spool_sort ==
    /\ ~spSorted
    /\ LET tagged == [k \in 1..Len(spSpool) |->
                         [value |-> spHeap[spSpool[k]].value,
                          label |-> spHeap[spSpool[k]].label,
                          cell |-> spSpool[k]]]
           sorted == filesort_sort(tagged)
       IN spSpool' = [k \in 1..Len(sorted) |-> sorted[k].cell]
    /\ spSorted' = TRUE
    /\ spLast' = SpLast("sort", "", filesort_rows(spSpool), FreedRow)
    /\ UNCHANGED <<spHeap, spAdds>>

\* FileSort.read(i) after the sort.
Spool_read(i) ==
    /\ spSorted
    /\ LET out == filesort_read(SpoolRows(spHeap, spSpool), i)
       IN spLast' = IF raise_if_err(out.err)
                    THEN SpLast("read", out.err, i, FreedRow)
                    ELSE SpLast("read", "", i, out.row)
    /\ UNCHANGED <<spHeap, spSpool, spSorted, spAdds>>

SpoolInit ==
    /\ spHeap = [c \in 0..(MaxSpool + 1) |-> FreedRow]
    /\ spSpool = <<>>
    /\ spSorted = FALSE
    /\ spAdds = <<>>
    /\ spLast = SpLast("new", "", 0, FreedRow)

SpoolNext ==
    \/ \E v \in SpoolValues : Input_new(v) /\ UNCHANGED OtherThanSpool
    \/ \E v \in SpoolValues : Input_set_i32(v) /\ UNCHANGED OtherThanSpool
    \/ Input_close /\ UNCHANGED OtherThanSpool
    \/ Spool_add /\ UNCHANGED OtherThanSpool
    \/ Spool_rows /\ UNCHANGED OtherThanSpool
    \/ Spool_sort /\ UNCHANGED OtherThanSpool
    \/ \E i \in 0..MaxSpool : Spool_read(i) /\ UNCHANGED OtherThanSpool

\* C20: the k-th successful add returns k, which is rows() afterwards; and
\* the spool holds, and read produces, the values each row had when it was
\* added, whatever the caller does to its row after add returned (setting
\* a column, releasing it).
C20_AddSpoolsCopy ==
    /\ spLast.op = "add" =>
          /\ spLast.raised = ""
          /\ spLast.ret = Len(spAdds)
          /\ spLast.ret = filesort_rows(spSpool)
    /\ SameMultiset(SpoolRows(spHeap, spSpool), spAdds)
    /\ (spLast.op = "read" /\ spLast.raised = "") =>
          /\ spLast.row \in Range(spAdds)
          /\ spLast.row = SpoolRows(spHeap, spSpool)[spLast.ret + 1]

C20_Witness ==
    /\ spLast.op = "read"
    /\ spLast.raised = ""
    /\ Len(spAdds) = MaxSpool
    /\ spHeap[CallerCell] = FreedRow
    /\ spLast.row = ItemRow(5)
    /\ \E k \in 1..Len(spAdds) : spAdds[k] = ItemRow(2)

(***************************************************************************)
(* Aggregate functions with admission conditions                           *)
(* (struct flintdb_aggregate_condition): ok is NULL for a function built   *)
(* by func_count / func_sum / func_avg, a predicate on the row otherwise.  *)
(***************************************************************************)
MaxCondRows == 3

\* _empty_cond(): the condition whose ok is NULL.
EmptyCond == "absent"

\* struct flintdb_aggregate_condition.ok, and its absence.
CondOk(cond, r) ==
    CASE cond = EmptyCond          -> TRUE
      [] cond = "quantity >= 10"   -> r.quantity >= 10
      [] cond = "category = Fruit" -> r.category = StringV("Fruit")

\* The functions of the aggregate: count as func_count builds it, and
\* functions that carry a condition.
CondFuncs ==
    <<[name |-> "count", column |-> "*", cond |-> EmptyCond],
      [name |-> "sum", column |-> "quantity", cond |-> "quantity >= 10"],
      [name |-> "count", column |-> "*", cond |-> "category = Fruit"]>>

\* A function folds a row only when every function's condition admits it.
FuncAdmitsJointly(funcs, f, r) ==
    \A g \in 1..Len(funcs) : CondOk(funcs[g].cond, r)

\* Whether function f folds r: its own condition is absent or true for r.
FuncAdmits(funcs, f, r) == CondOk(funcs[f].cond, r)

\* struct flintdb_aggregate.row with conditions: look the group up or create
\* it, then fold the row into the accumulator of every function that admits it.
aggregate_row_admitted(funcs, groups, r) ==
    LET k == GroupKey(r)
        at == GroupLookup(groups, k)
        known == IF at = 0
                 THEN Append(groups, [key |-> k,
                                      accs |-> [f \in 1..Len(funcs) |-> EmptyAcc]])
                 ELSE groups
        pos == IF at = 0 THEN Len(known) ELSE at
    IN [known EXCEPT ![pos].accs =
            [f \in 1..Len(funcs) |->
                IF FuncAdmits(funcs, f, r) THEN FuncFold(funcs[f], @[f], r)
                ELSE @[f]]]

\* Aggregate.row(r) on such an aggregate.
Aggregate_row_admitted(r) ==
    /\ Len(cgFolded) < MaxCondRows
    /\ cgGroups' = aggregate_row_admitted(CondFuncs, cgGroups, r)
    /\ cgFolded' = Append(cgFolded, r)
    /\ cgLast' = [op |-> "row", row |-> r]

\* Aggregate.close(): the accumulators go with the aggregate.
Aggregate_free_admitted ==
    /\ cgGroups # <<>>
    /\ cgGroups' = <<>>
    /\ cgFolded' = <<>>
    /\ cgLast' = [op |-> "close", row |-> Sale("", NilV, 0, 0)]

CondInit ==
    /\ cgGroups = <<>>
    /\ cgFolded = <<>>
    /\ cgLast = [op |-> "build", row |-> Sale("", NilV, 0, 0)]

CondNext ==
    \/ \E r \in TutorialSales : Aggregate_row_admitted(r) /\ UNCHANGED OtherThanCond
    \/ Aggregate_free_admitted /\ UNCHANGED OtherThanCond

\* The accumulator of function f in the group of key k, empty when the
\* group does not exist.
AccOf(groups, k, f) ==
    IF GroupLookup(groups, k) = 0 THEN EmptyAcc
    ELSE groups[GroupLookup(groups, k)].accs[f]

MaxBuilds == 2

\* groupbys = [groupby_new(...)], funcs = [func_count(...)]: one wrapper of
\* each class.
BuildHandles == {"GroupBy", "AggFunc"}

AbLast(op, freed, raised) == [op |-> op, freed |-> freed, raised |-> raised]

\* GroupBy.close / AggFunc.close:
\* `if self._owned and self._gb != NULL: self._gb.free(self._gb); self._gb = NULL`.
Wrapper_close(k) ==
    LET frees == abOwned[k] /\ abPtr[k] # "NULL"
    IN /\ abWrapperFrees' = [abWrapperFrees EXCEPT ![k] = IF frees THEN @ + 1 ELSE @]
       /\ abPtr' = [abPtr EXCEPT ![k] = IF frees THEN "NULL" ELSE @]
       /\ abLast' = AbLast(k, frees, "")
       /\ UNCHANGED <<abOwned, abAggFrees, abAggs>>

GroupBy_close == Wrapper_close("GroupBy")

AggFunc_close == Wrapper_close("AggFunc")

\* aggregate_new: the new aggregate owns the handles it was given; on a
\* failure it reports an error and owns nothing.
aggregate_new(ptrs, ok) ==
    IF ok THEN [agg |-> [open |-> TRUE, handles |-> {k \in BuildHandles : ptrs[k] # "NULL"}],
                err |-> ""]
    ELSE [agg |-> [open |-> FALSE, handles |-> {}], err |-> "aggregate_new failed"]

\* Aggregate.build(agg_id, groupbys, funcs): every wrapper's pointer goes
\* into the arrays and its _owned becomes False, then aggregate_new runs.
Aggregate_build(ok) ==
    /\ Len(abAggs) < MaxBuilds
    /\ abOwned' = [k \in BuildHandles |-> FALSE]
    /\ LET out == aggregate_new(abPtr, ok)
       IN /\ abAggs' = IF raise_if_err(out.err) THEN abAggs
                       ELSE Append(abAggs, out.agg)
          /\ abLast' = AbLast("build", FALSE, out.err)
    /\ UNCHANGED <<abPtr, abWrapperFrees, abAggFrees>>

\* Aggregate.close on the i-th aggregate built: the engine's free releases
\* the aggregate with the handles it owns; the wrapper's pointer becomes NULL.
Aggregate_close_owner(i) ==
    /\ i \in 1..Len(abAggs)
    /\ LET a == abAggs[i]
       IN /\ abAggFrees' = [k \in BuildHandles |->
                               IF a.open /\ k \in a.handles
                               THEN abAggFrees[k] + 1 ELSE abAggFrees[k]]
          /\ abAggs' = [abAggs EXCEPT ![i].open = FALSE]
          /\ abLast' = AbLast("Aggregate", a.open, "")
    /\ UNCHANGED <<abPtr, abOwned, abWrapperFrees>>

BuildInit ==
    /\ abPtr = [k \in BuildHandles |-> "live"]
    /\ abOwned = [k \in BuildHandles |-> TRUE]
    /\ abWrapperFrees = [k \in BuildHandles |-> 0]
    /\ abAggFrees = [k \in BuildHandles |-> 0]
    /\ abAggs = <<>>
    /\ abLast = AbLast("new", FALSE, "")

BuildNext ==
    \/ GroupBy_close /\ UNCHANGED OtherThanBuild
    \/ AggFunc_close /\ UNCHANGED OtherThanBuild
    \/ \E ok \in BOOLEAN : Aggregate_build(ok) /\ UNCHANGED OtherThanBuild
    \/ \E i \in 1..MaxBuilds : Aggregate_close_owner(i) /\ UNCHANGED OtherThanBuild

\* C22: a group-by or function handle is freed at most once: once build was
\* called with it, whether build returned or raised, the wrapper's close
\* frees nothing, and over any sequence of build and close calls no handle
\* is freed more than once, by its wrapper or by an Aggregate.
C22_HandlesFreedOnce ==
    /\ \A k \in BuildHandles :
          /\ abWrapperFrees[k] + abAggFrees[k] <= 1
          /\ ~abOwned[k] /\ abLast.op = k => ~abLast.freed

(***************************************************************************)
(* The row cursor of an SQL query result: SqlResult.iter_rows,             *)
(* SqlResult.close and the CursorRow wrappers around res.row_cursor.       *)
(***************************************************************************)
MaxIterRows == 3

SqLast(op, i) == [op |-> op, i |-> i]

\* The engine's cursor after its close ran, or its result's close.
cursor_row_close(closes) == closes + 1

\* struct flintdb_sql_result.close: the result goes, and its row cursor with
\* it; whether the engine knows that the cursor was closed through a
\* wrapper before is not in the sources.
sql_result_close(closes, released, tracks) ==
    IF released /\ tracks THEN closes ELSE cursor_row_close(closes)

\* SqlResult.iter_rows: a new CursorRow around the result's row cursor.
SqlResult_iter_rows ==
    /\ sqRes # "NULL"
    /\ Len(sqCursors) < MaxIterRows
    /\ sqCursors' = Append(sqCursors, "live")
    /\ sqLast' = SqLast("iter_rows", Len(sqCursors) + 1)
    /\ UNCHANGED <<sqRes, sqCloses, sqReleased, sqAdvancedReleased>>

\* CursorRow.next on the i-th wrapper iter_rows returned.
SqlCursor_next(i) ==
    /\ i \in 1..Len(sqCursors)
    /\ sqCursors[i] # "NULL"
    /\ sqAdvancedReleased' = (sqAdvancedReleased \/ sqReleased)
    /\ sqLast' = SqLast("next", i)
    /\ UNCHANGED <<sqRes, sqCursors, sqCloses, sqReleased>>

\* CursorRow.close on the i-th wrapper:
\* `if self._c != NULL: self._c.close(self._c); self._c = NULL`.
SqlCursor_close(i) ==
    /\ i \in 1..Len(sqCursors)
    /\ IF sqCursors[i] # "NULL"
       THEN /\ sqCloses' = cursor_row_close(sqCloses)
            /\ sqReleased' = TRUE
            /\ sqCursors' = [sqCursors EXCEPT ![i] = "NULL"]
       ELSE UNCHANGED <<sqCloses, sqReleased, sqCursors>>
    /\ sqLast' = SqLast("CursorRow.close", i)
    /\ UNCHANGED <<sqRes, sqAdvancedReleased>>

\* SqlResult.close:
\* `if self._res != NULL: self._res.close(self._res); self._res = NULL`.
SqlResult_close_result(tracks) ==
    /\ IF sqRes # "NULL"
       THEN /\ sqCloses' = sql_result_close(sqCloses, sqReleased, tracks)
            /\ sqReleased' = TRUE
            /\ sqRes' = "NULL"
       ELSE UNCHANGED <<sqCloses, sqReleased, sqRes>>
    /\ sqLast' = SqLast("SqlResult.close", 0)
    /\ UNCHANGED <<sqCursors, sqAdvancedReleased>>

\* sql_exec(select_sql): a result with its row cursor.
SqlInit ==
    /\ sqRes = "live"
    /\ sqCursors = <<>>
    /\ sqCloses = 0
    /\ sqReleased = FALSE
    /\ sqAdvancedReleased = FALSE
    /\ sqLast = SqLast("sql_exec", 0)

SqlNext ==
    \/ SqlResult_iter_rows /\ UNCHANGED OtherThanSql
    \/ \E i \in 1..MaxIterRows : SqlCursor_next(i) /\ UNCHANGED OtherThanSql
    \/ \E i \in 1..MaxIterRows : SqlCursor_close(i) /\ UNCHANGED OtherThanSql
    \/ \E tracks \in BOOLEAN :
          SqlResult_close_result(tracks) /\ UNCHANGED OtherThanSql

\* C23: over any sequence of iter_rows, CursorRow.close on a cursor it
\* returned and SqlResult.close, the engine's row cursor of the result is
\* never closed twice, is never advanced after it was released, and is
\* released once the result is closed.
C23_CursorReleasedOnce ==
    /\ sqCloses <= 1
    /\ ~sqAdvancedReleased
    /\ sqRes = "NULL" => sqCloses = 1

Init == TableInit /\ FlatInit /\ SortInit /\ AggInit /\ RowInit /\ MetaInit /\ CurInit /\ HandleInit /\ DropInit /\ OwnInit /\ SpoolInit /\ CondInit /\ BuildInit /\ SqlInit

SpecTable == Init /\ [][TableNext]_vars

SpecTutorial == Init /\ [][TutorialNext]_vars

SpecFlat == Init /\ [][FlatNext]_vars

SpecSort == Init /\ [][SortNext]_vars

SpecAgg == Init /\ [][AggNext]_vars

SpecRow == Init /\ [][RowNext]_vars

SpecMeta == Init /\ [][MetaNext]_vars

SpecCur == Init /\ [][CurNext]_vars

SpecHandle == Init /\ [][HandleNext]_vars

SpecDrop == Init /\ [][DropNext]_vars

SpecOwn == Init /\ [][OwnNext]_vars

SpecSpool == Init /\ [][SpoolNext]_vars

SpecCond == Init /\ [][CondNext]_vars

SpecBuild == Init /\ [][BuildNext]_vars

SpecSql == Init /\ [][SqlNext]_vars

====
